---- MODULE Spec2Model ----
(***************************************************************************)
(* Chunk-based similarity detection: the document/chunk store, the         *)
(* ingestion write path (src/src/ingest.js) and the tiered matcher         *)
(* (xai_module/src/search.js, src/src/search.js).                          *)
(*                                                                         *)
(* Text is a sequence of UTF-16 code units (integers).  A digest is        *)
(* modelled as a collision-free tag of the hashed text.  Scores are exact  *)
(* rationals <<numerator, denominator>>.                                   *)
(***************************************************************************)
EXTENDS Integers, Sequences, FiniteSets, TLC

VARIABLES documents, chunks, nextId, nIngest, ing, srch, calc, hnd, registry, upl, dual

vars == <<documents, chunks, nextId, nIngest, ing, srch, calc, hnd, registry, upl, dual>>

(***************************************************************************)
(* Bounds of the model.                                                    *)
(***************************************************************************)
\* longest submitted text, in words
MaxWords == 3
\* total number of ingestDocument calls in a run
MaxIngests == 2
\* chunk window and overlap in words: util.js:17 has 600 / 120, scaled down
\* so that texts of MaxWords words span several overlapping windows
SizeWords == 2
OverlapWords == 1

\* concurrent ingestDocument calls (requests in flight at the same time)
Procs == {1, 2}

(***************************************************************************)
(* xai_module/src/util.js                                                  *)
(***************************************************************************)
\* /[\x00-\x1F\x7F]+/g
CONTROL_CHAR_REGEX(c) == c \in 0..31 \/ c = 127

\* the class \s of a JavaScript regular expression (also what trim() strips)
IsWhitespace(c) ==
    \/ c \in {9, 10, 11, 12, 13, 32, 160, 5760, 8232, 8233, 8239, 8287, 12288, 65279}
    \/ c \in 8192..8202

\* String.prototype.toLowerCase on one code unit (ASCII and Latin-1 letters)
ToLowerCase(c) ==
    IF c \in 65..90 \/ (c \in 192..222 /\ c # 215) THEN c + 32 ELSE c

RECURSIVE DropLeadingWhitespace(_)
DropLeadingWhitespace(s) ==
    IF s # <<>> /\ IsWhitespace(Head(s)) THEN DropLeadingWhitespace(Tail(s)) ELSE s

\* replace(/\s+/g, ' ')
RECURSIVE CollapseWhitespace(_)
CollapseWhitespace(s) ==
    IF s = <<>> THEN <<>>
    ELSE IF IsWhitespace(Head(s))
         THEN <<32>> \o CollapseWhitespace(DropLeadingWhitespace(Tail(s)))
         ELSE <<Head(s)>> \o CollapseWhitespace(Tail(s))

RECURSIVE DropTrailingWhitespace(_)
DropTrailingWhitespace(s) ==
    IF s # <<>> /\ IsWhitespace(s[Len(s)])
    THEN DropTrailingWhitespace(SubSeq(s, 1, Len(s) - 1))
    ELSE s

\* String.prototype.trim
Trim(s) == DropTrailingWhitespace(DropLeadingWhitespace(s))

\* mutant: whitespace is collapsed before the control characters are removed
normalize_CollapseFirst(text) ==
    LET collapsedWhitespace == CollapseWhitespace(text)
        withoutControl == SelectSeq(collapsedWhitespace, LAMBDA c : ~CONTROL_CHAR_REGEX(c))
        trimmed == Trim(withoutControl)
    IN  [i \in 1..Len(trimmed) |-> ToLowerCase(trimmed[i])]

\* mutant: the result is not trimmed
normalize_NoTrim(text) ==
    LET withoutControl == SelectSeq(text, LAMBDA c : ~CONTROL_CHAR_REGEX(c))
        collapsedWhitespace == CollapseWhitespace(withoutControl)
    IN  [i \in 1..Len(collapsedWhitespace) |-> ToLowerCase(collapsedWhitespace[i])]

\* normalize (lines 9-14) from line 11 on, for the string of line 10
normalize(text) ==
    LET withoutControl == SelectSeq(text, LAMBDA c : ~CONTROL_CHAR_REGEX(c))
        collapsedWhitespace == CollapseWhitespace(withoutControl)
        trimmed == Trim(collapsedWhitespace)
    IN  [i \in 1..Len(trimmed) |-> ToLowerCase(trimmed[i])]

\* the decimal digits of a natural number
RECURSIVE Digits(_)
Digits(n) == IF n < 10 THEN <<48 + n>> ELSE Digits(n \div 10) \o <<48 + (n % 10)>>

\* line 10, String(text ?? ''): null and undefined give the empty string, a
\* boolean 'true' or 'false', an integer its decimal digits, a string itself
StringOf(v) ==
    CASE v.type \in {"null", "undefined"} -> <<>>
      [] v.type = "boolean" ->
            IF v.value THEN <<116, 114, 117, 101>> ELSE <<102, 97, 108, 115, 101>>
      [] v.type = "number" ->
            IF v.value < 0 THEN <<45>> \o Digits(0 - v.value) ELSE Digits(v.value)
      [] v.type = "string" -> v.value

\* normalize applied to any value (lines 9-14)
normalizeValue(v) == normalize(StringOf(v))

\* createHash('sha256').update(text).digest('hex'): collision-free
sha256(text) == [digest |-> text]

\* split(' ').filter(Boolean): the maximal runs of non-space code units
RECURSIVE SplitWords(_, _)
SplitWords(s, cur) ==
    IF s = <<>> THEN (IF cur = <<>> THEN <<>> ELSE <<cur>>)
    ELSE IF Head(s) = 32
         THEN (IF cur = <<>> THEN <<>> ELSE <<cur>>) \o SplitWords(Tail(s), <<>>)
         ELSE SplitWords(Tail(s), Append(cur, Head(s)))

\* words.join(' ')
RECURSIVE JoinWords(_)
JoinWords(ws) ==
    IF ws = <<>> THEN <<>>
    ELSE IF Len(ws) = 1 THEN ws[1]
    ELSE ws[1] \o <<32>> \o JoinWords(Tail(ws))

Max(a, b) == IF a >= b THEN a ELSE b
Min(a, b) == IF a <= b THEN a ELSE b

\* mutant: the loop runs only while a whole window is left, so a shorter
\* window at the end of the text is never pushed
RECURSIVE ChunkLoop_NoTailWindow(_, _, _, _)
ChunkLoop_NoTailWindow(words, start, sizeWords, step) ==
    IF start > 0 /\ start + sizeWords > Len(words) THEN <<>>
    ELSE LET chunkWords == SubSeq(words, start + 1, Min(start + sizeWords, Len(words)))
         IN  IF chunkWords = <<>> THEN <<>>
             ELSE <<JoinWords(chunkWords)>>
                  \o ChunkLoop_NoTailWindow(words, start + step, sizeWords, step)

\* the for loop of chunkText, from word offset start (0-based)
RECURSIVE ChunkLoop(_, _, _, _)
ChunkLoop(words, start, sizeWords, step) ==
    IF start >= Len(words) THEN <<>>
    ELSE LET chunkWords == SubSeq(words, start + 1, Min(start + sizeWords, Len(words)))
         IN  IF chunkWords = <<>> THEN <<>>
             ELSE IF start + sizeWords >= Len(words)
                  THEN <<JoinWords(chunkWords)>>
                  ELSE <<JoinWords(chunkWords)>>
                       \o ChunkLoop(words, start + step, sizeWords, step)

\* mutant: a step that is not positive is made positive by dropping its sign,
\* so an overlap far above the window makes the window jump over words
chunkTextWith_AbsoluteStep(text, sizeWords, overlapWords) ==
    LET normalized == normalize(text)
    IN  IF normalized = <<>> THEN <<>>
        ELSE ChunkLoop(SplitWords(normalized, <<>>), 0, sizeWords,
                       Max(Max(sizeWords - overlapWords, overlapWords - sizeWords), 1))

\* mutant: the window advances by its whole size, whatever the overlap
chunkTextWith_StepIsWindow(text, sizeWords, overlapWords) ==
    LET normalized == normalize(text)
    IN  IF normalized = <<>> THEN <<>>
        ELSE ChunkLoop(SplitWords(normalized, <<>>), 0, sizeWords, Max(sizeWords, 1))

\* chunkText(text, {sizeWords, overlapWords}), lines 16-39
chunkTextWith(text, sizeWords, overlapWords) ==
    LET normalized == normalize(text)
    IN  IF normalized = <<>> THEN <<>>
        ELSE ChunkLoop(SplitWords(normalized, <<>>), 0, sizeWords,
                       Max(sizeWords - overlapWords, 1))

\* chunkText(text) with the default options
chunkText(text) == chunkTextWith(text, SizeWords, OverlapWords)

(***************************************************************************)
(* Submitted texts: every sequence of at most MaxWords one-letter words,   *)
(* written in one of several ways that the normalizer has to undo.         *)
(***************************************************************************)
Letters == {97, 98}

RECURSIVE SeqsUpTo(_, _)
SeqsUpTo(S, n) ==
    IF n = 0 THEN {<<>>}
    ELSE LET shorter == SeqsUpTo(S, n - 1)
         IN  shorter \cup {Append(s, x) : s \in {t \in shorter : Len(t) = n - 1}, x \in S}

WordTexts == SeqsUpTo(Letters, MaxWords)

Styles == {"plain", "messy"}

\* the one-letter words ws, in upper or lower case, separated by sep
RECURSIVE RenderWords(_, _, _)
RenderWords(ws, upper, sep) ==
    IF ws = <<>> THEN <<>>
    ELSE LET w == IF upper THEN <<ws[1] - 32>> ELSE <<ws[1]>>
         IN  IF Len(ws) = 1 THEN w ELSE w \o sep \o RenderWords(Tail(ws), upper, sep)

Render(ws, style) ==
    IF style = "messy"
    THEN <<1, 32, 160>> \o RenderWords(ws, TRUE, <<10, 32, 127, 32>>) \o <<9, 32>>
    ELSE RenderWords(ws, FALSE, <<32>>)

RawInputs == {Render(ws, st) : ws \in WordTexts, st \in Styles}

\* the texts the normalizer maps the submitted texts to
NormalizedInputs == {normalize(raw) : raw \in RawInputs}

(***************************************************************************)
(* The store (xai_module/migrations/001_create_documents_chunks.sql):      *)
(* documents is the set of rows [id, doc_hash], chunks the set of rows     *)
(* [document_id, chunk_index, chunk_text, chunk_hash].                     *)
(***************************************************************************)
\* documents.doc_hash TEXT NOT NULL UNIQUE
DocHashConflict(docs, docHash) == \E d \in docs : d.doc_hash = docHash

\* mutant: the chunks table without its unique index
ChunkHashConflict_NoIndex(rows, chunkHash) == FALSE

\* CREATE UNIQUE INDEX idx_chunks_chunk_hash ON chunks(chunk_hash)
ChunkHashConflict(rows, chunkHash) == \E c \in rows : c.chunk_hash = chunkHash

\* SELECT id FROM documents WHERE doc_hash = $1
SelectDocumentByHash(docs, docHash) == {d \in docs : d.doc_hash = docHash}

\* SELECT id FROM chunks WHERE chunk_hash = $1
SelectChunkByHash(rows, chunkHash) == {c \in rows : c.chunk_hash = chunkHash}

(***************************************************************************)
(* ingestDocument (src/src/ingest.js), one step per awaited store query.   *)
(***************************************************************************)
\* no search answer is waiting to be sent
NoSearch == [pending |-> FALSE]

\* no function call of the pure components is under way
NoCalc == [op |-> "none"]

\* no call of the database handler is under way in a request slot
NoHandlerCall == [op |-> "none", pc |-> "idle"]

NoResult == [status |-> "none", id |-> 0, chunkCount |-> 0]
ErrorResult == [status |-> "error", id |-> 0, chunkCount |-> 0]

IdleIngest ==
    [pc |-> "idle", normalizedText |-> <<>>, documentId |-> 0, index |-> 0,
     chunkCount |-> 0, result |-> NoResult]

\* mutant: the upload is inserted without looking its hash up first
IngestCheck_NoLookup(p, raw) ==
    /\ ing[p].pc = "idle"
    /\ nIngest < MaxIngests
    /\ nIngest' = nIngest + 1
    /\ ing' = [ing EXCEPT ![p] =
                 [IdleIngest EXCEPT !.pc = "insertDoc",
                                    !.normalizedText = normalize(raw)]]
    /\ UNCHANGED <<documents, chunks, nextId, srch, calc, hnd, registry, upl, dual>>

\* lines 72-87: extract, normalize, hash, SELECT the document by its hash
IngestCheck(p, raw) ==
    /\ ing[p].pc = "idle"
    /\ nIngest < MaxIngests
    /\ nIngest' = nIngest + 1
    /\ LET normalizedText == normalize(raw)
           existing == SelectDocumentByHash(documents, sha256(normalizedText))
       IN  IF existing # {}
           THEN \E row \in existing :
                  ing' = [ing EXCEPT ![p] =
                            [IdleIngest EXCEPT !.pc = "done",
                                               !.normalizedText = normalizedText,
                                               !.result = [status |-> "duplicate",
                                                           id |-> row.id,
                                                           chunkCount |-> 0]]]
           ELSE ing' = [ing EXCEPT ![p] =
                          [IdleIngest EXCEPT !.pc = "insertDoc",
                                             !.normalizedText = normalizedText]]
    /\ UNCHANGED <<documents, chunks, nextId, srch, calc, hnd, registry, upl, dual>>

\* the position of the loop at lines 100-124 once chunk number index is
\* reached: the next SELECT, or the return at line 127 after the last chunk
AfterChunk(st, index, chunkCount) ==
    IF index < Len(chunkText(st.normalizedText))
    THEN [st EXCEPT !.pc = "chunkCheck", !.index = index, !.chunkCount = chunkCount]
    ELSE [st EXCEPT !.pc = "done", !.index = index, !.chunkCount = chunkCount,
                    !.result = [status |-> "imported", id |-> st.documentId,
                                chunkCount |-> chunkCount]]

\* lines 89-98: INSERT INTO documents ... RETURNING id, then chunkText.
\* A row with the same doc_hash makes the INSERT fail; line 128 rethrows.
IngestInsertDocument(p) ==
    /\ ing[p].pc = "insertDoc"
    /\ IF DocHashConflict(documents, sha256(ing[p].normalizedText))
       THEN /\ ing' = [ing EXCEPT ![p].pc = "done", ![p].result = ErrorResult]
            /\ UNCHANGED <<documents, nextId>>
       ELSE /\ documents' = documents \cup
                   {[id |-> nextId, doc_hash |-> sha256(ing[p].normalizedText)]}
            /\ nextId' = nextId + 1
            /\ ing' = [ing EXCEPT ![p] =
                         AfterChunk([ing[p] EXCEPT !.documentId = nextId], 0, 0)]
    /\ UNCHANGED <<chunks, nIngest, srch, calc, hnd, registry, upl, dual>>

\* lines 101-111: SELECT id FROM chunks WHERE chunk_hash = $1; skip if found
IngestChunkCheck(p) ==
    /\ ing[p].pc = "chunkCheck"
    /\ LET chunkTextValue == chunkText(ing[p].normalizedText)[ing[p].index + 1]
           chunkExists == SelectChunkByHash(chunks, sha256(chunkTextValue))
       IN  IF chunkExists # {}
           THEN ing' = [ing EXCEPT ![p] =
                          AfterChunk(ing[p], ing[p].index + 1, ing[p].chunkCount)]
           ELSE ing' = [ing EXCEPT ![p].pc = "chunkInsert"]
    /\ UNCHANGED <<documents, chunks, nextId, nIngest, srch, calc, hnd, registry, upl, dual>>

\* lines 113-123: INSERT INTO chunks; the store may reject the statement
\* (storeOk = FALSE) and rejects it when the chunk hash is already indexed;
\* the catch at line 120 rethrows
IngestChunkInsert(p, storeOk) ==
    /\ ing[p].pc = "chunkInsert"
    /\ LET chunkTextValue == chunkText(ing[p].normalizedText)[ing[p].index + 1]
           chunkHash == sha256(chunkTextValue)
       IN  IF ~storeOk \/ ChunkHashConflict(chunks, chunkHash)
           THEN /\ ing' = [ing EXCEPT ![p].pc = "done", ![p].result = ErrorResult]
                /\ UNCHANGED chunks
           ELSE /\ chunks' = chunks \cup
                       {[document_id |-> ing[p].documentId,
                         chunk_index |-> ing[p].index,
                         chunk_text |-> chunkTextValue,
                         chunk_hash |-> chunkHash]}
                /\ ing' = [ing EXCEPT ![p] =
                             AfterChunk(ing[p], ing[p].index + 1, ing[p].chunkCount + 1)]
    /\ UNCHANGED <<documents, nextId, nIngest, srch, calc, hnd, registry, upl, dual>>

\* the caller has its answer; the request slot serves the next upload
IngestReturn(p) ==
    /\ ing[p].pc = "done"
    /\ ing' = [ing EXCEPT ![p] = IdleIngest]
    /\ UNCHANGED <<documents, chunks, nextId, nIngest, srch, calc, hnd, registry, upl, dual>>

(***************************************************************************)
(* Exact rationals for scores and similarities.                            *)
(***************************************************************************)
RECURSIVE Gcd(_, _)
Gcd(a, b) == IF b = 0 THEN a ELSE Gcd(b, a % b)

\* the fraction n/d in lowest terms
Frac(n, d) == IF n = 0 THEN <<0, 1>> ELSE <<n \div Gcd(n, d), d \div Gcd(n, d)>>
FracAdd(x, y) == Frac(x[1] * y[2] + y[1] * x[2], x[2] * y[2])
FracLess(x, y) == x[1] * y[2] < y[1] * x[2]

(***************************************************************************)
(* The store's trigram similarity (pg_trgm): similarity(a, b) and a % b.   *)
(***************************************************************************)
WordTrigrams(w) ==
    LET padded == <<32, 32>> \o w \o <<32>>
    IN  {SubSeq(padded, i, i + 2) : i \in 1..(Len(padded) - 2)}

Trigrams(text) ==
    LET words == SplitWords(text, <<>>)
    IN  UNION {WordTrigrams(words[i]) : i \in 1..Len(words)}

similarity(a, b) ==
    LET ta == Trigrams(a)
        tb == Trigrams(b)
    IN  IF ta \cup tb = {} THEN <<0, 1>>
        ELSE Frac(Cardinality(ta \cap tb), Cardinality(ta \cup tb))

\* pg_trgm.similarity_threshold, 0.3 by default
SimilarText(a, b) == ~FracLess(similarity(a, b), <<3, 10>>)

\* LIMIT 3 of the fuzzy query (xai_module/src/search.js:112)
FuzzyLimit == 3

\* every sequence that lists each element of S once
RECURSIVE Orderings(_)
Orderings(S) ==
    IF S = {} THEN {<<>>}
    ELSE UNION {{<<x>> \o rest : rest \in Orderings(S \ {x})} : x \in S}

\* SELECT c.document_id, ..., similarity(c.chunk_text, $1) AS sim FROM chunks c
\* JOIN documents d ... WHERE c.chunk_text % $1 ORDER BY sim DESC LIMIT 3:
\* the row sequences the store may answer with (ties in any order)
FuzzyRowsOf(docs, rows, chunk) ==
    LET matching == {c \in rows : /\ SimilarText(c.chunk_text, chunk)
                                  /\ \E d \in docs : d.id = c.document_id}
        k == Min(FuzzyLimit, Cardinality(matching))
        sim(c) == similarity(c.chunk_text, chunk)
    IN  {rs \in UNION {Orderings(T) : T \in {U \in SUBSET matching : Cardinality(U) = k}} :
            /\ \A i \in 1..(Len(rs) - 1) : ~FracLess(sim(rs[i]), sim(rs[i + 1]))
            /\ \A c \in matching :
                  (\E i \in 1..Len(rs) : rs[i] = c)
                  \/ \A i \in 1..Len(rs) : ~FracLess(sim(rs[i]), sim(c))}

(***************************************************************************)
(* The academic classifier (src/xai/xaiAnalyzer.js).  Feature values and   *)
(* contributions are exact rationals.                                      *)
(***************************************************************************)
FracOf(n) == <<n, 1>>
FracMul(x, k) == Frac(x[1] * k, x[2])
FracMin(x, y) == IF FracLess(y, x) THEN y ELSE x
\* lo < x < hi
FracBetween(x, lo, hi) == FracLess(FracOf(lo), x) /\ FracLess(x, FracOf(hi))

\* results.reduce((sum, r) => sum + r.score, 0)
RECURSIVE SumScores(_)
SumScores(results) ==
    IF results = <<>> THEN <<0, 1>>
    ELSE FracAdd(SumScores(SubSeq(results, 1, Len(results) - 1)),
                 results[Len(results)].score)

\* the mean score of the candidates, times weight
WeightedAvgScore(results, weight) ==
    LET sum == SumScores(results)
    IN  Frac(sum[1] * weight, sum[2] * Len(results))

\* lines 117-138
scoreLexicalPatterns(lexical) ==
    LET richness == IF FracBetween(lexical.vocabularyRichness, 30, 70) THEN 20 ELSE 10
        technical == IF FracBetween(lexical.technicalTermDensity, 5, 15) THEN 15
                     ELSE IF FracLess(FracOf(2), lexical.technicalTermDensity) THEN 10
                     ELSE 0
        unique == FracMin(FracOf(15), FracMul(lexical.uniqueWordRatio, 30))
    IN  FracMin(FracOf(50), FracAdd(FracOf(richness + technical), unique))

\* lines 140-159
scoreSyntacticStructure(syntactic) ==
    LET length == IF FracBetween(syntactic.avgSentenceLength, 15, 25) THEN 15
                  ELSE IF FracLess(FracOf(10), syntactic.avgSentenceLength) THEN 10
                  ELSE 0
        complex == FracMin(FracOf(15), FracMul(syntactic.complexSentenceRatio, 30))
        punctuation == IF FracBetween(syntactic.punctuationDensity, 2, 10) THEN 10 ELSE 0
    IN  FracMin(FracOf(40), FracAdd(FracOf(length + punctuation), complex))

\* lines 161-184
scoreSemanticContent(semantic) ==
    LET count == IF semantic.citationCount > 5 THEN 20
                 ELSE IF semantic.citationCount > 0 THEN 10 ELSE 0
        density == IF FracLess(FracOf(1), semantic.citationDensity) THEN 15
                   ELSE IF FracLess(FracOf(0), semantic.citationDensity) THEN 8 ELSE 0
        refPatterns == semantic.referencePatterns
        section == IF refPatterns.hasReferencesSection THEN 10 ELSE 0
        cited == IF refPatterns.hasNumberedReferences \/ refPatterns.hasAuthorYearCitations
                 THEN 5 ELSE 0
    IN  FracOf(Min(50, count + density + section + cited))

\* lines 186-196
scoreCitationPatterns(semantic) ==
    LET patterns == semantic.referencePatterns
    IN  FracOf(Min(80, (IF patterns.hasReferencesSection THEN 25 ELSE 0)
                       + (IF patterns.hasNumberedReferences THEN 20 ELSE 0)
                       + (IF patterns.hasAuthorYearCitations THEN 20 ELSE 0)
                       + (IF patterns.hasEtAl THEN 15 ELSE 0)))

\* lines 198-221
scoreWritingStyle(stylometric) ==
    LET formality == IF FracLess(FracOf(70), stylometric.formalityScore) THEN 25
                     ELSE IF FracLess(FracOf(50), stylometric.formalityScore) THEN 15
                     ELSE 0
        readability == IF FracBetween(stylometric.readabilityScore, 40, 60) THEN 20 ELSE 10
        firstPerson == IF FracLess(stylometric.firstPersonUsage, FracOf(2)) THEN 15 ELSE 0
    IN  FracOf(Min(60, formality + readability + firstPerson))

\* lines 223-232
scoreDocumentStructure(structure) ==
    FracOf(Min(70, (IF structure.hasSections THEN 25 ELSE 0)
                   + (IF structure.hasAbstract THEN 20 ELSE 0)
                   + (IF structure.hasConclusion THEN 15 ELSE 0)
                   + (IF structure.paragraphCount > 5 THEN 10 ELSE 0)))

\* mutant: a whole-document match is scored like any other match
textualSimilarity_NoDocumentRule(matchResults) ==
    IF matchResults.matchType = "exact_chunks" /\ Len(matchResults.results) > 0
    THEN WeightedAvgScore(matchResults.results, 100)
    ELSE IF matchResults.matchType = "fuzzy_trigram" /\ Len(matchResults.results) > 0
    THEN WeightedAvgScore(matchResults.results, 50)
    ELSE <<0, 1>>

\* lines 85-94: contributions.textualSimilarity
textualSimilarity(matchResults) ==
    IF matchResults.matchType = "document" THEN <<100, 1>>
    ELSE IF matchResults.matchType = "exact_chunks" /\ Len(matchResults.results) > 0
    THEN WeightedAvgScore(matchResults.results, 100)
    ELSE IF matchResults.matchType = "fuzzy_trigram" /\ Len(matchResults.results) > 0
    THEN WeightedAvgScore(matchResults.results, 50)
    ELSE <<0, 1>>

\* lines 74-115
calculateAcademicContributions(features, matchResults) ==
    [textualSimilarity |-> textualSimilarity(matchResults),
     lexicalPatterns |-> scoreLexicalPatterns(features.lexical),
     syntacticStructure |-> scoreSyntacticStructure(features.syntactic),
     semanticContent |-> scoreSemanticContent(features.semantic),
     citationPatterns |-> scoreCitationPatterns(features.semantic),
     writingStyle |-> scoreWritingStyle(features.stylometric),
     documentStructure |-> scoreDocumentStructure(features.structure)]

\* the label, risk level, confidence and action of one bucket
Bucket(label, riskLevel, confidence, actionRequired) ==
    [label |-> label, riskLevel |-> riskLevel, confidence |-> confidence,
     actionRequired |-> actionRequired]

\* mutant: the review bucket starts above 30, not at 30
AcademicBucket_OpenReview(similarityPercent) ==
    IF FracLess(<<40, 1>>, similarityPercent)
    THEN Bucket("Plagiarism Detected", "critical", 95, "REJECT")
    ELSE IF FracLess(<<30, 1>>, similarityPercent)
    THEN Bucket("Review Required", "medium", 85, "REVIEW")
    ELSE IF FracLess(<<0, 1>>, similarityPercent) /\ FracLess(similarityPercent, <<30, 1>>)
    THEN Bucket("Acceptable", "low", 90, "APPROVE")
    ELSE Bucket("Original", "none", 95, "APPROVE")

\* lines 242-263: the threshold chain
AcademicBucket(similarityPercent) ==
    IF FracLess(<<40, 1>>, similarityPercent)
    THEN Bucket("Plagiarism Detected", "critical", 95, "REJECT")
    ELSE IF ~FracLess(similarityPercent, <<30, 1>>) /\ ~FracLess(<<40, 1>>, similarityPercent)
    THEN Bucket("Review Required", "medium", 85, "REVIEW")
    ELSE IF FracLess(<<0, 1>>, similarityPercent) /\ FracLess(similarityPercent, <<30, 1>>)
    THEN Bucket("Acceptable", "low", 90, "APPROVE")
    ELSE Bucket("Original", "none", 95, "APPROVE")

\* lines 234-279
classifyAcademicDocument(contributions, matchResults) ==
    LET totalScore ==
            FracAdd(contributions.textualSimilarity,
            FracAdd(contributions.lexicalPatterns,
            FracAdd(contributions.syntacticStructure,
            FracAdd(contributions.semanticContent,
            FracAdd(contributions.citationPatterns,
            FracAdd(contributions.writingStyle, contributions.documentStructure))))))
        overallScore == Frac(totalScore[1] * 100, totalScore[2] * 400)
        bucket == AcademicBucket(contributions.textualSimilarity)
    IN  [label |-> bucket.label,
         riskLevel |-> bucket.riskLevel,
         confidence |-> bucket.confidence,
         actionRequired |-> bucket.actionRequired,
         overallScore |-> contributions.textualSimilarity,
         qualityScore |-> overallScore]

\* feature values on either side of the thresholds of the score functions
LexicalFeatures ==
    {[vocabularyRichness |-> <<0, 1>>, technicalTermDensity |-> <<0, 1>>,
      uniqueWordRatio |-> <<1, 3>>],
     [vocabularyRichness |-> <<50, 1>>, technicalTermDensity |-> <<10, 1>>,
      uniqueWordRatio |-> <<1, 1>>]}

SyntacticFeatures ==
    {[avgSentenceLength |-> <<3, 1>>, complexSentenceRatio |-> <<0, 1>>,
      punctuationDensity |-> <<0, 1>>],
     [avgSentenceLength |-> <<20, 1>>, complexSentenceRatio |-> <<1, 2>>,
      punctuationDensity |-> <<5, 1>>]}

SemanticFeatures ==
    {[citationCount |-> 0, citationDensity |-> <<0, 1>>,
      referencePatterns |-> [hasNumberedReferences |-> FALSE,
                             hasAuthorYearCitations |-> FALSE,
                             hasEtAl |-> FALSE, hasReferencesSection |-> FALSE]],
     [citationCount |-> 6, citationDensity |-> <<2, 1>>,
      referencePatterns |-> [hasNumberedReferences |-> TRUE,
                             hasAuthorYearCitations |-> TRUE,
                             hasEtAl |-> TRUE, hasReferencesSection |-> TRUE]]}

StylometricFeatures ==
    {[formalityScore |-> <<50, 1>>, readabilityScore |-> <<100, 1>>,
      firstPersonUsage |-> <<5, 1>>],
     [formalityScore |-> <<80, 1>>, readabilityScore |-> <<50, 1>>,
      firstPersonUsage |-> <<0, 1>>]}

StructureFeatures ==
    {[hasSections |-> FALSE, hasAbstract |-> FALSE, hasConclusion |-> FALSE,
      paragraphCount |-> 1],
     [hasSections |-> TRUE, hasAbstract |-> TRUE, hasConclusion |-> TRUE,
      paragraphCount |-> 6]}

AcademicFeatureSets ==
    [lexical : LexicalFeatures, syntactic : SyntacticFeatures,
     semantic : SemanticFeatures, stylometric : StylometricFeatures,
     structure : StructureFeatures]

\* the number of different elements of a sequence (new Set(words).size)
Distinct(ws) == Cardinality({ws[i] : i \in 1..Len(ws)})

\* the code units of a, e, i, o, u
Vowels == {97, 101, 105, 111, 117}

\* the words of /\b(I|we|my|our|me|us)\b/gi (featureExtractor.js:263)
FirstPerson == {<<105>>, <<119, 101>>, <<109, 121>>, <<111, 117, 114>>, <<109, 101>>,
                <<117, 115>>}

\* calculateReadabilityScore (featureExtractor.js:240-253) for a text of
\* words words in one sentence: 206.835 - 1.015 * words - 84.6 * syllables /
\* words, kept within 0..100
calculateReadabilityScore(words, syllables) ==
    IF words = 0 THEN <<0, 1>>
    ELSE LET thousandths == 206835 * words - 1015 * words * words - 84600 * syllables
         IN  IF thousandths <= 0 THEN <<0, 1>>
             ELSE FracMin(<<100, 1>>, Frac(thousandths, 1000 * words))

\* FeatureExtractor.extractAcademicFeatures (featureExtractor.js:10-55) for
\* normalized text without punctuation, digits, citations or any of the
\* keywords the extractor looks for (one sentence, one paragraph): the word
\* statistics are computed, the pattern counts are all zero
extractAcademicFeatures(text) ==
    LET words == SplitWords(text, <<>>)
        longWords == SelectSeq(words, LAMBDA w : Len(w) > 2)
        syllables == Len(SelectSeq(text, LAMBDA c : c \in Vowels))
    IN  [lexical |->
             [vocabularyRichness |->
                  IF Len(longWords) > 0
                  THEN Frac(Distinct(longWords) * 100, Len(longWords)) ELSE <<0, 1>>,
              technicalTermDensity |-> <<0, 1>>,
              uniqueWordRatio |->
                  IF Len(words) > 0 THEN Frac(Distinct(words), Len(words)) ELSE <<0, 1>>],
         syntactic |->
             [avgSentenceLength |-> FracOf(Len(words)),
              complexSentenceRatio |-> <<0, 1>>,
              punctuationDensity |-> <<0, 1>>],
         semantic |->
             [citationCount |-> 0, citationDensity |-> <<0, 1>>,
              referencePatterns |-> [hasNumberedReferences |-> FALSE,
                                     hasAuthorYearCitations |-> FALSE,
                                     hasEtAl |-> FALSE, hasReferencesSection |-> FALSE]],
         stylometric |->
             [formalityScore |-> <<50, 1>>,
              readabilityScore |-> calculateReadabilityScore(Len(words), syllables),
              firstPersonUsage |->
                  IF Len(words) > 0
                  THEN Frac(Len(SelectSeq(words, LAMBDA w : w \in FirstPerson)) * 100,
                            Len(words))
                  ELSE <<0, 1>>],
         structure |->
             [hasSections |-> FALSE, hasAbstract |-> FALSE, hasConclusion |-> FALSE,
              paragraphCount |-> 1]]

\* FeatureExtractor.extractDocumentFeatures (featureExtractor.js:60-97): line
\* 67 calls this.detectOfficialTerms, which the class does not define
extractDocumentFeatures(text) == [threw |-> "TypeError"]

\* lines 28-37: the analysis returned for a classification.  The model keeps
\* the classification without its quality score; the feature report and the
\* explanation texts are left out
AcademicAnalysis(classification) ==
    [documentType |-> "academic",
     classification |-> [label |-> classification.label,
                         riskLevel |-> classification.riskLevel,
                         confidence |-> classification.confidence,
                         actionRequired |-> classification.actionRequired,
                         overallScore |-> classification.overallScore],
     confidence |-> classification.confidence,
     riskLevel |-> classification.riskLevel]

\* analyzeAcademicDocument, lines 15-38
analyzeAcademicDocument(text, matchResults) ==
    {AcademicAnalysis(
         classifyAcademicDocument(
             calculateAcademicContributions(extractAcademicFeatures(text), matchResults),
             matchResults))}

\* analyzeVerificationDocument, lines 47-70: the feature extraction at line 49
\* throws before anything is scored
analyzeVerificationDocument(text, matchResults) == {extractDocumentFeatures(text)}

\* detectDocumentType (xai_module/src/search.js:164-201) returns
\* 'verification' under this number of words
ShortDocumentWords == 500

\* the document types detectDocumentType may answer; for longer texts the
\* answer depends on keyword indicators, which are not modelled
detectDocumentType(text) ==
    IF Len(SplitWords(text, <<>>)) < ShortDocumentWords
    THEN {"verification"}
    ELSE {"verification", "academic"}

\* generateXAIAnalysis (xai_module/src/search.js:206-221): an analysis that
\* throws is replaced by the error object of the catch block
generateXAIAnalysis(text, matchResults, documentType) ==
    {IF "threw" \in DOMAIN analysis
     THEN [error |-> "XAI analysis failed", documentType |-> documentType]
     ELSE analysis :
       analysis \in IF documentType = "academic"
                    THEN analyzeAcademicDocument(text, matchResults)
                    ELSE analyzeVerificationDocument(text, matchResults)}

(***************************************************************************)
(* searchDocument (xai_module/src/search.js; src/src/search.js is the same *)
(* matcher without the per-match details).                                 *)
(***************************************************************************)
\* Array.prototype.sort((a, b) => b.score - a.score): stable, descending
RECURSIVE InsertByScore(_, _)
InsertByScore(sorted, e) ==
    IF sorted = <<>> THEN <<e>>
    ELSE IF FracLess(Head(sorted).score, e.score)
         THEN <<e>> \o sorted
         ELSE <<Head(sorted)>> \o InsertByScore(Tail(sorted), e)

RECURSIVE SortByScore(_)
SortByScore(list) ==
    IF list = <<>> THEN <<>>
    ELSE InsertByScore(SortByScore(SubSeq(list, 1, Len(list) - 1)), list[Len(list)])

\* mutant: the join to documents is made on chunk_index instead of document_id
ExactMatchRows_JoinOnIndex(docs, rows, chunkHashes) ==
    {c \in rows : /\ c.chunk_hash \in chunkHashes
                  /\ \E d \in docs : d.id = c.chunk_index}

\* lines 41-47: the stored rows whose hash is one of the submitted hashes
ExactMatchRows(docs, rows, chunkHashes) ==
    {c \in rows : /\ c.chunk_hash \in chunkHashes
                  /\ \E d \in docs : d.id = c.document_id}

\* lines 78-82: SELECT document_id, COUNT(*) ... GROUP BY document_id
ChunkCount(rows, docId) == Cardinality({c \in rows : c.document_id = docId})

\* mutant: a weak exact match (under half of the submitted chunks) is passed
\* on to the fuzzy tier
ExactHit_OnlyIfHalfCovered(matchRows, submitted) ==
    2 * Cardinality(matchRows) > Len(submitted)

\* line 49: if (exactMatchRows.rows.length > 0)
ExactHit(matchRows, submitted) == matchRows # {}

\* lines 84-97: one candidate of an exact_chunks result
ExactCandidate(rows, matchRows, submitted, docId) ==
    LET matches == {c \in matchRows : c.document_id = docId}
    IN  [docId |-> docId,
         matchedChunks |-> Cardinality(matches),
         chunkCount |-> ChunkCount(rows, docId),
         score |-> IF Len(submitted) # 0
                   THEN Frac(Cardinality(matches), Len(submitted))
                   ELSE <<0, 1>>]

\* lines 49-100: group the rows by document in the order the store returned
\* them, score, sort
ExactResults(rows, matchRows, submitted) ==
    LET docIds == {c.document_id : c \in matchRows}
    IN  {SortByScore([i \in 1..Len(order) |->
                        ExactCandidate(rows, matchRows, submitted, order[i])]) :
            order \in Orderings(docIds)}

\* lines 116-139: add the rows of one fuzzy query to fuzzyMap (insertion order)
RECURSIVE AddFuzzyRows(_, _, _)
AddFuzzyRows(fuzzyMap, rs, chunk) ==
    IF rs = <<>> THEN fuzzyMap
    ELSE LET row == Head(rs)
             sim == similarity(row.chunk_text, chunk)
             at == {i \in 1..Len(fuzzyMap) : fuzzyMap[i].docId = row.document_id}
             next == IF at = {}
                     THEN Append(fuzzyMap, [docId |-> row.document_id, matches |-> 1,
                                            totalSimilarity |-> sim])
                     ELSE LET i == CHOOSE j \in at : TRUE
                          IN  [fuzzyMap EXCEPT
                                 ![i].matches = @ + 1,
                                 ![i].totalSimilarity = FracAdd(@, sim)]
         IN  AddFuzzyRows(next, Tail(rs), chunk)

\* mutant: the score is the similarity total, not divided by the match count
FuzzyResults_Total(fuzzyMap) ==
    SortByScore([i \in 1..Len(fuzzyMap) |->
        [docId |-> fuzzyMap[i].docId,
         matchedChunks |-> fuzzyMap[i].matches,
         score |-> fuzzyMap[i].totalSimilarity]])

\* lines 142-151: score = totalSimilarity / matches, sorted
FuzzyResults(fuzzyMap) ==
    SortByScore([i \in 1..Len(fuzzyMap) |->
        [docId |-> fuzzyMap[i].docId,
         matchedChunks |-> fuzzyMap[i].matches,
         score |-> IF fuzzyMap[i].matches # 0
                   THEN Frac(fuzzyMap[i].totalSimilarity[1],
                             fuzzyMap[i].totalSimilarity[2] * fuzzyMap[i].matches)
                   ELSE <<0, 1>>]])

SearchError(queries) ==
    [matchType |-> "error", docId |-> 0, score |-> <<0, 1>>, results |-> <<>>,
     queries |-> queries]

\* mutant: a failed fuzzy query is caught and counted as "no similar chunk"
RECURSIVE FuzzyLoop_SwallowFailure(_, _, _, _, _, _, _)
FuzzyLoop_SwallowFailure(docs, rows, submitted, i, fuzzyMap, queries, failAt) ==
    IF i > Len(submitted)
    THEN {[matchType |-> "fuzzy_trigram", docId |-> 0, score |-> <<0, 1>>,
           results |-> FuzzyResults(fuzzyMap), queries |-> queries]}
    ELSE IF failAt = Len(queries) + 1
         THEN FuzzyLoop_SwallowFailure(docs, rows, submitted, i + 1, fuzzyMap,
                                       Append(queries, "fuzzy"), failAt)
         ELSE UNION {FuzzyLoop_SwallowFailure(docs, rows, submitted, i + 1,
                               AddFuzzyRows(fuzzyMap, rs, submitted[i]),
                               Append(queries, "fuzzy"), failAt) :
                        rs \in FuzzyRowsOf(docs, rows, submitted[i])}

\* lines 103-158: the fuzzy queries from chunk number i on (1-based); failAt
\* is the number of the store query that fails (0: none), issued the number of
\* queries issued so far
RECURSIVE FuzzyLoop(_, _, _, _, _, _, _)
FuzzyLoop(docs, rows, submitted, i, fuzzyMap, queries, failAt) ==
    IF i > Len(submitted)
    THEN {[matchType |-> "fuzzy_trigram", docId |-> 0, score |-> <<0, 1>>,
           results |-> FuzzyResults(fuzzyMap), queries |-> queries]}
    ELSE IF failAt = Len(queries) + 1
         THEN {SearchError(Append(queries, "fuzzy"))}
         ELSE UNION {FuzzyLoop(docs, rows, submitted, i + 1,
                               AddFuzzyRows(fuzzyMap, rs, submitted[i]),
                               Append(queries, "fuzzy"), failAt) :
                        rs \in FuzzyRowsOf(docs, rows, submitted[i])}

\* lines 18-158: the tiers, for the normalized text and its digest.  The
\* outcomes are the result returned, or the error the call fails with, each
\* with the store queries issued in order
\* lines 153-158: the fuzzy result is returned with its analysis
WithAnalysis(matchResults, text, documentType) ==
    IF matchResults.matchType = "error" THEN {matchResults}
    ELSE {[matchType |-> matchResults.matchType, docId |-> matchResults.docId,
           score |-> matchResults.score, results |-> matchResults.results,
           queries |-> matchResults.queries, xaiAnalysis |-> xaiAnalysis,
           detectedDocumentType |-> documentType] :
             xaiAnalysis \in generateXAIAnalysis(text, matchResults, documentType)}

SearchTiers(docs, rows, normalized, docHash, documentType, failAt) ==
    LET existing == SelectDocumentByHash(docs, docHash)
        submitted == chunkText(normalized)
        chunkHashes == {sha256(submitted[i]) : i \in 1..Len(submitted)}
        matchRows == ExactMatchRows(docs, rows, chunkHashes)
    IN  IF failAt = 1 THEN {SearchError(<<"document">>)}
        ELSE IF existing # {}
        THEN {[matchType |-> "document", docId |-> row.id, score |-> <<1, 1>>,
               results |-> <<>>, queries |-> <<"document">>] : row \in existing}
        ELSE IF submitted = <<>>
        THEN {[matchType |-> "fuzzy_trigram", docId |-> 0, score |-> <<0, 1>>,
               results |-> <<>>, queries |-> <<"document">>]}
        ELSE IF failAt = 2 THEN {SearchError(<<"document", "chunks">>)}
        ELSE IF ExactHit(matchRows, submitted)
        THEN IF failAt = 3 THEN {SearchError(<<"document", "chunks", "count">>)}
             ELSE {[matchType |-> "exact_chunks", docId |-> 0, score |-> <<0, 1>>,
                    results |-> res,
                    queries |-> <<"document", "chunks", "count">>] :
                      res \in ExactResults(rows, matchRows, submitted)}
        ELSE UNION {WithAnalysis(matchResults, normalized, documentType) :
                      matchResults \in FuzzyLoop(docs, rows, submitted, 1, <<>>,
                                                 <<"document", "chunks">>, failAt)}

\* the xaiAnalysis: null of the empty-text answer
Null == [null |-> TRUE]

\* lines 13-16: the document type asked for, detected when it is 'auto'
DocumentTypeOf(documentType, normalized) ==
    IF documentType = "auto" THEN detectDocumentType(normalized) ELSE {documentType}

\* mutant: the document hash is taken of the extracted text as it came
searchDocument_HashRaw(docs, rows, raw, documentType, failAt) ==
    IF normalize(raw) = <<>>
    THEN {[matchType |-> "fuzzy_trigram", docId |-> 0, score |-> <<0, 1>>,
           results |-> <<>>, queries |-> <<>>, xaiAnalysis |-> Null]}
    ELSE UNION {SearchTiers(docs, rows, normalize(raw), sha256(raw), type, failAt) :
                  type \in DocumentTypeOf(documentType, normalize(raw))}

\* lines 6-31: normalize, answer empty text at once, settle the document
\* type, hash, run the tiers
searchDocument(docs, rows, raw, documentType, failAt) ==
    IF normalize(raw) = <<>>
    THEN {[matchType |-> "fuzzy_trigram", docId |-> 0, score |-> <<0, 1>>,
           results |-> <<>>, queries |-> <<>>, xaiAnalysis |-> Null]}
    ELSE UNION {SearchTiers(docs, rows, normalize(raw), sha256(normalize(raw)),
                            type, failAt) :
                  type \in DocumentTypeOf(documentType, normalize(raw))}

\* the documentType option of a /check request ('verification' is what
\* 'auto' detects for every text of this model)
DocumentTypes == {"auto", "academic"}

\* the most store queries one search issues: document, chunks, one per chunk
MaxQueries ==
    2 + (CHOOSE n \in 0..MaxWords :
            /\ \E t \in NormalizedInputs : Len(chunkText(t)) = n
            /\ \A t \in NormalizedInputs : Len(chunkText(t)) <= n)

\* mutant: the checked upload is also written to the documents table
Search_StoresUpload(raw, documentType, failAt) ==
    /\ ~srch.pending
    /\ \E outcome \in searchDocument(documents, chunks, raw, documentType, failAt) :
          srch' = [pending |-> TRUE, raw |-> raw,
                   failed |-> IF failAt <= Len(outcome.queries) THEN failAt ELSE 0,
                   outcome |-> outcome]
    /\ documents' = documents \cup {[id |-> nextId, doc_hash |-> sha256(normalize(raw))]}
    /\ UNCHANGED <<chunks, nextId, nIngest, ing, calc, hnd, registry, upl, dual>>

\* a /check request: the whole of searchDocument against the current store;
\* query number failAt fails (0: none does); failed is the number of the query
\* that did fail, 0 when the call never got to issue query number failAt
Search(raw, documentType, failAt) ==
    /\ ~srch.pending
    /\ \E outcome \in searchDocument(documents, chunks, raw, documentType, failAt) :
          srch' = [pending |-> TRUE, raw |-> raw,
                   failed |-> IF failAt <= Len(outcome.queries) THEN failAt ELSE 0,
                   outcome |-> outcome]
    /\ UNCHANGED <<documents, chunks, nextId, nIngest, ing, calc, hnd, registry, upl, dual>>

\* the answer is sent to the caller
SearchReturn ==
    /\ srch.pending
    /\ srch' = NoSearch
    /\ UNCHANGED <<documents, chunks, nextId, nIngest, ing, calc, hnd, registry, upl, dual>>

(***************************************************************************)
(* Calls of the academic classifier on its own: a feature set and a match  *)
(* result go through calculateAcademicContributions and then through       *)
(* classifyAcademicDocument (analyzeAcademicDocument, lines 15-38).        *)
(***************************************************************************)
\* candidate scores, in hundred-thousandths: the bucket boundaries of the
\* classifier and their neighbours, for exact (x 100) and fuzzy (x 50) results
ScorePoints ==
    {0, 1, 29999, 30000, 30001, 39999, 40000, 40001, 50000, 59998, 60000,
     80000, 80002, 100000}

Candidate(docId, points) ==
    [docId |-> docId, matchedChunks |-> 1, score |-> Frac(points, 100000)]

MatchResultInputs ==
    {[matchType |-> "document", docId |-> 1, score |-> <<1, 1>>]}
    \cup {[matchType |-> t, results |-> <<>>] : t \in {"exact_chunks", "fuzzy_trigram"}}
    \cup {[matchType |-> t, results |-> <<Candidate(1, k)>>] :
             t \in {"exact_chunks", "fuzzy_trigram"}, k \in ScorePoints}
    \cup {[matchType |-> t, results |-> <<Candidate(1, 100000), Candidate(2, k)>>] :
             t \in {"exact_chunks", "fuzzy_trigram"}, k \in ScorePoints}

\* line 20: const contributions = this.calculateAcademicContributions(...)
CalculateContributions ==
    /\ calc.op = "academic"
    /\ calc.stage = "features"
    /\ calc' = [calc EXCEPT
                  !.stage = "contributions",
                  !.contributions =
                      calculateAcademicContributions(calc.features, calc.matchResults)]
    /\ UNCHANGED <<documents, chunks, nextId, nIngest, ing, srch, hnd, registry, upl, dual>>

\* line 23: const classification = this.classifyAcademicDocument(...)
ClassifyAcademic ==
    /\ calc.op = "academic"
    /\ calc.stage = "contributions"
    /\ calc' = [calc EXCEPT
                  !.stage = "classified",
                  !.classification =
                      classifyAcademicDocument(calc.contributions, calc.matchResults)]
    /\ UNCHANGED <<documents, chunks, nextId, nIngest, ing, srch, hnd, registry, upl, dual>>

(***************************************************************************)
(* The verification-document analysis on its own: a feature set and a      *)
(* match result go through calculateAuthenticityScore and then through     *)
(* classifyVerificationDocument (analyzeVerificationDocument, lines 47-70). *)
(***************************************************************************)
\* lines 379-402
detectTampering(features, matchResults) ==
    LET partial ==
            /\ matchResults.matchType = "exact_chunks"
            /\ Len(matchResults.results) > 0
            /\ FracLess(<<7, 10>>, matchResults.results[1].score)
            /\ FracLess(matchResults.results[1].score, <<98, 100>>)
        tamperingScore ==
            (IF partial THEN 50 ELSE 0)
            + (IF ~features.structural.hasProperFormatting THEN 20 ELSE 0)
            + (IF ~features.structural.hasConsistentSpacing THEN 15 ELSE 0)
            + (IF ~features.textual.hasSerialNumber THEN 15 ELSE 0)
    IN  Min(100, tamperingScore)

\* lines 359-377
calculateAuthenticityScore(features, matchResults) ==
    [officialLanguage |-> IF features.textual.hasOfficialLanguage THEN 20 ELSE 0,
     serialNumber |-> IF features.textual.hasSerialNumber THEN 15 ELSE 0,
     dateFormat |-> IF features.textual.hasDateFormat THEN 10 ELSE 0,
     officialTerms |-> IF features.textual.hasOfficialStamps THEN 15 ELSE 0,
     structuralIntegrity |-> IF features.structural.hasProperFormatting THEN 15 ELSE 0,
     consistentFormatting |-> IF features.structural.hasConsistentSpacing THEN 10 ELSE 0,
     documentType |-> IF features.metadata.documentType # "unknown" THEN 15 ELSE 0,
     tamperingDetection |-> 100 - detectTampering(features, matchResults)]

\* lines 404-454: the issues pushed to forgeryDetails
detectForgeryIndicators(authenticity) ==
    (IF authenticity.serialNumber = 0 THEN <<"Missing Serial Number">> ELSE <<>>)
    \o (IF authenticity.officialLanguage = 0 /\ authenticity.officialTerms = 0
        THEN <<"No Official Language Detected">> ELSE <<>>)
    \o (IF authenticity.structuralIntegrity < 10
        THEN <<"Poor Document Formatting">> ELSE <<>>)
    \o (IF authenticity.dateFormat = 0 THEN <<"Missing or Invalid Date">> ELSE <<>>)
    \o (IF authenticity.tamperingDetection < 50
        THEN <<"Signs of Tampering Detected">> ELSE <<>>)

\* Object.values(authenticity).reduce(...) / Object.keys(authenticity).length
AuthenticityTotal(authenticity) ==
    Frac(authenticity.officialLanguage + authenticity.serialNumber
         + authenticity.dateFormat + authenticity.officialTerms
         + authenticity.structuralIntegrity + authenticity.consistentFormatting
         + authenticity.documentType + authenticity.tamperingDetection,
         Cardinality(DOMAIN authenticity))

\* the verdict returned at lines 532-541
Verdict(authenticity, label, riskLevel, confidence, actionRequired, forgeryDetails) ==
    [thrown |-> "", label |-> label, riskLevel |-> riskLevel, confidence |-> confidence,
     actionRequired |-> actionRequired,
     authenticityScore |-> AuthenticityTotal(authenticity),
     tamperingRisk |-> 100 - authenticity.tamperingDetection,
     forgeryDetails |-> forgeryDetails]

\* lines 456-543.  In the partial-match branch the call at line 492 names
\* `features`, which is not declared in this function or in the module: the
\* evaluation throws a ReferenceError
classifyVerificationDocument(authenticity, matchResults) ==
    LET totalScore == AuthenticityTotal(authenticity)
        indicators == detectForgeryIndicators(authenticity)
    IN  IF matchResults.matchType = "document"
        THEN Verdict(authenticity, "100% Match - Duplicate Document", "critical", 100,
                     "REJECT", <<"Exact Duplicate">>)
        ELSE IF matchResults.matchType \in {"exact_chunks", "fuzzy_trigram"}
        THEN IF /\ Len(matchResults.results) > 0
                /\ FracLess(<<1, 2>>, matchResults.results[1].score)
             THEN Verdict(authenticity, "Suspected Forgery - Modified Document",
                          "critical", 90, "REJECT", <<"Partial Match Detected">>)
             ELSE [thrown |-> "ReferenceError: features is not defined"]
        ELSE IF Len(indicators) > 0
        THEN Verdict(authenticity, "Suspected Forgery", "critical", 80, "REJECT",
                     indicators)
        ELSE IF FracLess(<<80, 1>>, totalScore)
        THEN Verdict(authenticity, "Appears Authentic", "low", 75, "REVIEW", <<>>)
        ELSE Verdict(authenticity, "Insufficient Evidence of Authenticity", "high", 65,
                     "REJECT", <<>>)

\* what extractDocumentFeatures can report
VerificationFeatureSets ==
    {[textual |-> [hasOfficialLanguage |-> ol, hasSerialNumber |-> sn,
                   hasDateFormat |-> df, hasOfficialStamps |-> os],
      structural |-> [hasProperFormatting |-> pf, hasConsistentSpacing |-> sp],
      metadata |-> [documentType |-> dt]] :
        ol \in BOOLEAN, sn \in BOOLEAN, df \in BOOLEAN, os \in BOOLEAN,
        pf \in BOOLEAN, sp \in BOOLEAN, dt \in {"unknown", "certificate"}}

\* the match results of searchDocument, and a caller that found no match
VerificationMatchInputs ==
    MatchResultInputs \cup {[matchType |-> "none", results |-> <<>>]}

\* line 52: const authenticity = this.calculateAuthenticityScore(...)
CalculateAuthenticity ==
    /\ calc.op = "verification"
    /\ calc.stage = "features"
    /\ calc' = [calc EXCEPT
                  !.stage = "authenticity",
                  !.authenticity =
                      calculateAuthenticityScore(calc.features, calc.matchResults)]
    /\ UNCHANGED <<documents, chunks, nextId, nIngest, ing, srch, hnd, registry, upl, dual>>

\* line 55: const classification = this.classifyVerificationDocument(...)
ClassifyVerification ==
    /\ calc.op = "verification"
    /\ calc.stage = "authenticity"
    /\ calc' = [calc EXCEPT
                  !.stage = "classified",
                  !.classification =
                      classifyVerificationDocument(calc.authenticity, calc.matchResults)]
    /\ UNCHANGED <<documents, chunks, nextId, nIngest, ing, srch, hnd, registry, upl, dual>>

(***************************************************************************)
(* DocumentRegistry (block_chain_module/contracts/DocumentRegistry.sol):   *)
(* the contract storage, the DocumentRegistered event log, the time of the *)
(* block being mined and the outcome of the latest call.                   *)
(***************************************************************************)
\* the latest block time of a run
MaxBlockTime == 2

\* bytes32 values (0 is bytes32(0)), account addresses
Bytes32 == 0..2
Addresses == {1, 2}

\* the value of a storage slot never written (lines 13-22, 25)
ZeroDocument ==
    [documentHash |-> 0, documentName |-> "", uploader |-> 0, timestamp |-> 0,
     isVerified |-> FALSE, xaiAnalysis |-> "", verificationStatus |-> "",
     confidenceScore |-> 0]

NoCall == [fn |-> "none"]

\* the contract after deployment (lines 25, 28)
Deployed ==
    [documents |-> [h \in Bytes32 |-> ZeroDocument], documentHashes |-> <<>>,
     events |-> <<>>, now |-> 1, call |-> NoCall]

\* the store and the request slots at start-up
\* the JavaScript value NaN, and the JavaScript number with integer value n
NaN == [nan |-> TRUE]
Num(n) == [number |-> n]
IsInteger(x) == "number" \in DOMAIN x

\* the dual DatabaseHandler as constructed (real-analyzer.js 329-337): no
\* document, nextId 1, PostgreSQL not in use; created lists the ids of the
\* documents its createDocument calls have returned
NoDual ==
    [pc |-> "constructed", usePostgres |-> FALSE,
     data |-> [documents |-> <<>>, nextId |-> Num(1)], created |-> <<>>]

\* the integrated server before initializeServices has run: chunkingService
\* is null, no upload request is being handled (document-parser.js 296)
NoUpload ==
    [pc |-> "starting", chunkingService |-> FALSE, registered |-> {},
     xaiResults |-> Null, maxSimilarity |-> <<0, 1>>, documentId |-> 0,
     stored |-> 0, blockchainData |-> Null, res |-> Null, storeFailed |-> FALSE]

EmptyStore ==
    /\ documents = {}
    /\ chunks = {}
    /\ nextId = 1
    /\ nIngest = 0
    /\ ing = [p \in Procs |-> IdleIngest]
    /\ srch = NoSearch
    /\ dual = NoDual
    /\ upl = NoUpload
    /\ registry = Deployed
    /\ hnd = [p \in Procs |-> NoHandlerCall]

ClassifyInit ==
    /\ EmptyStore
    /\ calc \in {[op |-> "academic", stage |-> "features", features |-> f,
                  matchResults |-> m, contributions |-> <<>>, classification |-> <<>>] :
                    f \in AcademicFeatureSets, m \in MatchResultInputs}

ClassifyNext == CalculateContributions \/ ClassifyAcademic

ClassifySpec == ClassifyInit /\ [][ClassifyNext]_vars

VerifyInit ==
    /\ EmptyStore
    /\ calc \in {[op |-> "verification", stage |-> "features", features |-> f,
                  matchResults |-> m, authenticity |-> <<>>, classification |-> <<>>] :
                    f \in VerificationFeatureSets, m \in VerificationMatchInputs}

VerifyNext == CalculateAuthenticity \/ ClassifyVerification

VerifySpec == VerifyInit /\ [][VerifyNext]_vars

(***************************************************************************)
(* Calls of chunkText on its own, for texts of distinct one-letter words   *)
(* (so that the words a chunk holds tell which positions it covers) and    *)
(* every window and overlap up to the bounds, overlaps not below the       *)
(* window included.                                                        *)
(***************************************************************************)
\* the longest text chunked, in words, and the widest window
MaxChunkWords == 6
MaxWindow == 4

\* the first n letters, one word each
DistinctWords(n) == [i \in 1..n |-> 96 + i]

ChunkTexts == {Render(DistinctWords(n), st) : n \in 0..MaxChunkWords, st \in Styles}

ChunkText ==
    /\ calc.op = "chunkText"
    /\ calc.stage = "called"
    /\ calc' = [calc EXCEPT
                  !.stage = "returned",
                  !.chunks = chunkTextWith(calc.text, calc.sizeWords, calc.overlapWords)]
    /\ UNCHANGED <<documents, chunks, nextId, nIngest, ing, srch, hnd, registry, upl, dual>>

ChunkInit ==
    /\ EmptyStore
    /\ calc \in {[op |-> "chunkText", stage |-> "called", text |-> t, sizeWords |-> w,
                  overlapWords |-> o, chunks |-> <<>>] :
                    t \in ChunkTexts, w \in 1..MaxWindow, o \in 0..MaxWindow}

ChunkNext == ChunkText

ChunkSpec == ChunkInit /\ [][ChunkNext]_vars

(***************************************************************************)
(* Calls of normalize on its own, once and then again on its own result,   *)
(* for null, undefined, booleans, integers and every string of at most     *)
(* MaxChars code units out of tab, space, DEL, no-break space, A and a.    *)
(***************************************************************************)
MaxChars == 5

NormalizeChars == {9, 32, 127, 160, 65, 97}

StringValue(str) == [type |-> "string", value |-> str]

NormalizeValues ==
    {[type |-> "null"], [type |-> "undefined"]}
    \cup {[type |-> "boolean", value |-> b] : b \in BOOLEAN}
    \cup {[type |-> "number", value |-> n] : n \in {-1, 0, 7, 120}}
    \cup {StringValue(str) : str \in SeqsUpTo(NormalizeChars, MaxChars)}

\* normalize(x)
NormalizeCall ==
    /\ calc.op = "normalize"
    /\ calc.stage = "called"
    /\ calc' = [calc EXCEPT !.stage = "once", !.once = normalizeValue(calc.value)]
    /\ UNCHANGED <<documents, chunks, nextId, nIngest, ing, srch, hnd, registry, upl, dual>>

\* normalize(normalize(x))
NormalizeAgain ==
    /\ calc.op = "normalize"
    /\ calc.stage = "once"
    /\ calc' = [calc EXCEPT !.stage = "twice",
                            !.twice = normalizeValue(StringValue(calc.once))]
    /\ UNCHANGED <<documents, chunks, nextId, nIngest, ing, srch, hnd, registry, upl, dual>>

NormalizeInit ==
    /\ EmptyStore
    /\ calc \in {[op |-> "normalize", stage |-> "called", value |-> v,
                  once |-> <<>>, twice |-> <<>>] : v \in NormalizeValues}

NormalizeNext == NormalizeCall \/ NormalizeAgain

NormalizeSpec == NormalizeInit /\ [][NormalizeNext]_vars

Init ==
    /\ documents = {}
    /\ chunks = {}
    /\ nextId = 1
    /\ nIngest = 0
    /\ ing = [p \in Procs |-> IdleIngest]
    /\ srch = NoSearch
    /\ dual = NoDual
    /\ upl = NoUpload
    /\ registry = Deployed
    /\ hnd = [p \in Procs |-> NoHandlerCall]
    /\ calc = NoCalc

(***************************************************************************)
(* PostgreSQLHandler (src/api/database/postgres-handler.js) on the same    *)
(* two tables, one step per statement it awaits.  A document row is        *)
(* [id, doc_hash, status], status being metadata.status; calls run in the  *)
(* request slots concurrently.                                             *)
(***************************************************************************)
\* documents created in a run
MaxHandlerDocs == 2

HandlerTexts == {<<97>>, <<98>>}
HandlerHashes == {sha256(t) : t \in HandlerTexts}
HandlerStatuses == {"analyzing"}

\* a field the caller left out of updates
Undefined == [undefined |-> TRUE]

HandlerUpdates ==
    [status : {"", "verified"}, documentHash : HandlerHashes \cup {Undefined}]

HandlerError(message) == [status |-> "error", message |-> message]
HandlerRow(row) == [status |-> "row", row |-> row]
HandlerNoRow == [status |-> "undefined"]

HandlerDone(st, result) == [st EXCEPT !.pc = "done", !.result = result]

\* createDocument, lines 49-79: INSERT INTO documents ... RETURNING *.  The
\* sequence hands out the id before the unique constraint is checked; on a
\* doc_hash conflict the catch block goes on to look the row up
createDocument(p, docHash, status, storeOk) ==
    /\ hnd[p].pc = "idle"
    /\ nextId <= MaxHandlerDocs
    /\ IF ~storeOk
       THEN /\ hnd' = [hnd EXCEPT ![p] =
                         [op |-> "createDocument", pc |-> "done", hash |-> docHash,
                          result |-> HandlerError("store")]]
            /\ UNCHANGED <<documents, nextId>>
       ELSE IF DocHashConflict(documents, docHash)
       THEN /\ hnd' = [hnd EXCEPT ![p] =
                         [op |-> "createDocument", pc |-> "lookup", hash |-> docHash,
                          result |-> HandlerNoRow]]
            /\ nextId' = nextId + 1
            /\ UNCHANGED documents
       ELSE LET row == [id |-> nextId, doc_hash |-> docHash, status |-> status]
            IN  /\ documents' = documents \cup {row}
                /\ nextId' = nextId + 1
                /\ hnd' = [hnd EXCEPT ![p] =
                             [op |-> "createDocument", pc |-> "done", hash |-> docHash,
                              result |-> HandlerRow(row)]]
    /\ UNCHANGED <<chunks, nIngest, ing, srch, calc, registry, upl, dual>>

\* createDocument, lines 84-96: SELECT * FROM documents WHERE doc_hash = $1;
\* the error is rethrown when the row is gone
createDocumentLookup(p) ==
    /\ hnd[p].op = "createDocument" /\ hnd[p].pc = "lookup"
    /\ LET existingDoc == SelectDocumentByHash(documents, hnd[p].hash)
       IN  IF existingDoc # {}
           THEN \E row \in existingDoc : hnd' = [hnd EXCEPT ![p] = HandlerDone(@, HandlerRow(row))]
           ELSE hnd' = [hnd EXCEPT ![p] = HandlerDone(@, HandlerError("duplicate key"))]
    /\ UNCHANGED <<documents, chunks, nextId, nIngest, ing, srch, calc, registry, upl, dual>>

\* updateDocument, lines 102-125: SELECT metadata FROM documents WHERE id = $1
\* and the merge of updates.status into it
updateDocumentSelect(p, id, updates) ==
    /\ hnd[p].pc = "idle"
    /\ LET currentResult == {d \in documents : d.id = id}
       IN  IF currentResult = {}
           THEN hnd' = [hnd EXCEPT ![p] =
                          [op |-> "updateDocument", pc |-> "done", id |-> id,
                           updates |-> updates, currentMetadata |-> "",
                           result |-> HandlerError("Document not found")]]
           ELSE \E d \in currentResult :
                  hnd' = [hnd EXCEPT ![p] =
                            [op |-> "updateDocument", pc |-> "update", id |-> id,
                             updates |-> updates,
                             currentMetadata |->
                                 IF updates.status # "" THEN updates.status ELSE d.status,
                             result |-> HandlerNoRow]]
    /\ UNCHANGED <<documents, chunks, nextId, nIngest, ing, srch, calc, registry, upl, dual>>

\* lines 128-152: SET doc_hash = $1 (when updates.documentHash is given),
\* metadata = $2
UpdatedRow(d, updates, metadata) ==
    [d EXCEPT !.doc_hash = IF updates.documentHash # Undefined
                           THEN updates.documentHash ELSE @,
              !.status = metadata]

\* updateDocument, lines 147-155: UPDATE documents SET ... WHERE id = $n
\* RETURNING *; a doc_hash another row holds violates the unique constraint
updateDocumentWrite(p, storeOk) ==
    /\ hnd[p].op = "updateDocument" /\ hnd[p].pc = "update"
    /\ LET target == {d \in documents : d.id = hnd[p].id}
           written == {UpdatedRow(d, hnd[p].updates, hnd[p].currentMetadata) : d \in target}
       IN  IF ~storeOk
           THEN /\ hnd' = [hnd EXCEPT ![p] = HandlerDone(@, HandlerError("store"))]
                /\ UNCHANGED documents
           ELSE IF \E w \in written : DocHashConflict(documents \ target, w.doc_hash)
           THEN /\ hnd' = [hnd EXCEPT ![p] = HandlerDone(@, HandlerError("duplicate key"))]
                /\ UNCHANGED documents
           ELSE IF written = {}
           THEN /\ hnd' = [hnd EXCEPT ![p] = HandlerDone(@, HandlerNoRow)]
                /\ UNCHANGED documents
           ELSE /\ documents' = (documents \ target) \cup written
                /\ \E w \in written : hnd' = [hnd EXCEPT ![p] = HandlerDone(@, HandlerRow(w))]
    /\ UNCHANGED <<chunks, nextId, nIngest, ing, srch, calc, registry, upl, dual>>

\* mutant: the DELETE has lost its WHERE clause
DeleteFromChunks_NoWhere(rows, id) == {}

\* DELETE FROM chunks WHERE document_id = $1
DeleteFromChunks(rows, id) == {c \in rows : c.document_id # id}

\* deleteDocument, lines 184-188: the chunks of the document are deleted first
deleteDocumentChunks(p, id, storeOk) ==
    /\ hnd[p].pc = "idle"
    /\ IF storeOk
       THEN /\ chunks' = DeleteFromChunks(chunks, id)
            /\ hnd' = [hnd EXCEPT ![p] =
                         [op |-> "deleteDocument", pc |-> "delete", id |-> id,
                          result |-> HandlerNoRow]]
       ELSE /\ hnd' = [hnd EXCEPT ![p] =
                         [op |-> "deleteDocument", pc |-> "done", id |-> id,
                          result |-> HandlerError("store")]]
            /\ UNCHANGED chunks
    /\ UNCHANGED <<documents, nextId, nIngest, ing, srch, calc, registry, upl, dual>>

\* deleteDocument, lines 190-192: DELETE FROM documents WHERE id = $1
\* RETURNING *; chunks.document_id is declared ON DELETE CASCADE
deleteDocumentRow(p, storeOk) ==
    /\ hnd[p].op = "deleteDocument" /\ hnd[p].pc = "delete"
    /\ LET target == {d \in documents : d.id = hnd[p].id}
       IN  IF ~storeOk
           THEN /\ hnd' = [hnd EXCEPT ![p] = HandlerDone(@, HandlerError("store"))]
                /\ UNCHANGED <<documents, chunks>>
           ELSE /\ documents' = documents \ target
                /\ chunks' = IF target = {} THEN chunks ELSE DeleteFromChunks(chunks, hnd[p].id)
                /\ IF target = {}
                   THEN hnd' = [hnd EXCEPT ![p] = HandlerDone(@, HandlerNoRow)]
                   ELSE \E d \in target : hnd' = [hnd EXCEPT ![p] = HandlerDone(@, HandlerRow(d))]
    /\ UNCHANGED <<nextId, nIngest, ing, srch, calc, registry, upl, dual>>

\* createChunk, lines 199-223: INSERT INTO chunks ... RETURNING *;
\* document_id REFERENCES documents(id), chunk_hash is uniquely indexed
createChunk(p, document_id, chunk_index, chunk_text, storeOk) ==
    /\ hnd[p].pc = "idle"
    /\ LET row == [document_id |-> document_id, chunk_index |-> chunk_index,
                   chunk_text |-> chunk_text, chunk_hash |-> sha256(chunk_text)]
       IN  IF ~storeOk
           THEN /\ hnd' = [hnd EXCEPT ![p] =
                             [op |-> "createChunk", pc |-> "done", id |-> document_id,
                              result |-> HandlerError("store")]]
                /\ UNCHANGED chunks
           ELSE IF ~(\E d \in documents : d.id = document_id)
           THEN /\ hnd' = [hnd EXCEPT ![p] =
                             [op |-> "createChunk", pc |-> "done", id |-> document_id,
                              result |-> HandlerError("foreign key")]]
                /\ UNCHANGED chunks
           ELSE IF ChunkHashConflict(chunks, row.chunk_hash)
           THEN /\ hnd' = [hnd EXCEPT ![p] =
                             [op |-> "createChunk", pc |-> "done", id |-> document_id,
                              result |-> HandlerError("duplicate key")]]
                /\ UNCHANGED chunks
           ELSE /\ chunks' = chunks \cup {row}
                /\ hnd' = [hnd EXCEPT ![p] =
                             [op |-> "createChunk", pc |-> "done", id |-> document_id,
                              result |-> HandlerRow(row)]]
    /\ UNCHANGED <<documents, nextId, nIngest, ing, srch, calc, registry, upl, dual>>

\* the caller has its answer
HandlerReturn(p) ==
    /\ hnd[p].pc = "done"
    /\ hnd' = [hnd EXCEPT ![p] = NoHandlerCall]
    /\ UNCHANGED <<documents, chunks, nextId, nIngest, ing, srch, calc, registry, upl, dual>>

HandlerNext ==
    \/ \E p \in Procs, h \in HandlerHashes, st \in HandlerStatuses, storeOk \in BOOLEAN :
          createDocument(p, h, st, storeOk)
    \/ \E p \in Procs : createDocumentLookup(p)
    \/ \E p \in Procs, id \in 1..MaxHandlerDocs, updates \in HandlerUpdates :
          updateDocumentSelect(p, id, updates)
    \/ \E p \in Procs, storeOk \in BOOLEAN : updateDocumentWrite(p, storeOk)
    \/ \E p \in Procs, id \in 1..MaxHandlerDocs, storeOk \in BOOLEAN :
          deleteDocumentChunks(p, id, storeOk)
    \/ \E p \in Procs, storeOk \in BOOLEAN : deleteDocumentRow(p, storeOk)
    \/ \E p \in Procs, id \in 1..MaxHandlerDocs, t \in HandlerTexts, storeOk \in BOOLEAN :
          createChunk(p, id, 0, t, storeOk)
    \/ \E p \in Procs : HandlerReturn(p)

HandlerSpec == Init /\ [][HandlerNext]_vars

\* the steps of the ingestDocument calls running in the request slots P
IngestNext(P) ==
    \/ \E p \in P, raw \in RawInputs : IngestCheck(p, raw)
    \/ \E p \in P : IngestInsertDocument(p)
    \/ \E p \in P : IngestChunkCheck(p)
    \/ \E p \in P, storeOk \in BOOLEAN : IngestChunkInsert(p, storeOk)
    \/ \E p \in P : IngestReturn(p)

\* uploads served concurrently
Next == IngestNext(Procs)

Spec == Init /\ [][Next]_vars

\* ingestions and deletions against one store, one call at a time
IngestDeleteNext ==
    \/ hnd[1].pc = "idle" /\ IngestNext({1})
    \/ /\ ing[1].pc = "idle"
       /\ \E id \in 1..MaxIngests, storeOk \in BOOLEAN : deleteDocumentChunks(1, id, storeOk)
    \/ \E storeOk \in BOOLEAN : deleteDocumentRow(1, storeOk)
    \/ HandlerReturn(1)

IngestDeleteSpec == Init /\ [][IngestDeleteNext]_vars

\* uploads served one at a time, and checks against the store they build
SearchNext ==
    \/ ~srch.pending /\ IngestNext({1})
    \/ /\ ~srch.pending
       /\ \E raw \in RawInputs, documentType \in DocumentTypes, failAt \in 0..MaxQueries :
             \* a failing query ends the call before the document type is used
             /\ failAt = 0 \/ documentType = "auto"
             /\ Search(raw, documentType, failAt)
    \/ SearchReturn

SearchSpec == Init /\ [][SearchNext]_vars

(***************************************************************************)
(* Ranking: uploads of one-word texts over three letters, served one at a  *)
(* time, and checks of texts over the same letters.  A third letter lets   *)
(* one stored document resemble both chunks of a submitted text and        *)
(* another only one of them.                                               *)
(***************************************************************************)
RankLetters == {97, 98, 99}

RankUploads == {Render(<<l>>, "plain") : l \in RankLetters}

RankChecks == {Render(ws, "plain") : ws \in SeqsUpTo(RankLetters, MaxWords)}

RankNext ==
    \/ ~srch.pending /\ \E raw \in RankUploads : IngestCheck(1, raw)
    \/ ~srch.pending /\ IngestInsertDocument(1)
    \/ ~srch.pending /\ IngestChunkCheck(1)
    \/ ~srch.pending /\ \E storeOk \in BOOLEAN : IngestChunkInsert(1, storeOk)
    \/ ~srch.pending /\ IngestReturn(1)
    \/ \E raw \in RankChecks, failAt \in 0..MaxQueries : Search(raw, "auto", failAt)
    \/ SearchReturn

RankSpec == Init /\ [][RankNext]_vars

(***************************************************************************)
(* Calls of DocumentRegistry.  A require that fails reverts the call: the  *)
(* storage is left as it was and the caller gets the message.              *)
(***************************************************************************)
Reverted(fn, sender, arg, message) ==
    [registry EXCEPT !.call = [fn |-> fn, sender |-> sender, arg |-> arg,
                               revert |-> message, ret |-> <<>>]]

Returned(fn, sender, arg, ret) ==
    [fn |-> fn, sender |-> sender, arg |-> arg, revert |-> "", ret |-> ret]

\* mutant: the check of the registration timestamp is missing
IsRegistered_Never(docs, h) == FALSE

\* documents[_documentHash].timestamp != 0
IsRegistered(docs, h) == docs[h].timestamp # 0

\* lines 57-83
registerDocument(sender, _documentHash, _documentName) ==
    /\ registry' =
         IF IsRegistered(registry.documents, _documentHash)
         THEN Reverted("registerDocument", sender, _documentHash, "Document already registered")
         ELSE IF _documentHash = 0
         THEN Reverted("registerDocument", sender, _documentHash, "Invalid document hash")
         ELSE IF _documentName = ""
         THEN Reverted("registerDocument", sender, _documentHash,
                       "Document name cannot be empty")
         ELSE [registry EXCEPT
                 !.documents[_documentHash] =
                     [documentHash |-> _documentHash, documentName |-> _documentName,
                      uploader |-> sender, timestamp |-> registry.now,
                      isVerified |-> FALSE, xaiAnalysis |-> "",
                      verificationStatus |-> "pending", confidenceScore |-> 0],
                 !.documentHashes = Append(@, _documentHash),
                 !.events = Append(@, _documentHash),
                 !.call = Returned("registerDocument", sender, _documentHash, <<>>)]
    /\ UNCHANGED <<documents, chunks, nextId, nIngest, ing, srch, calc, hnd, upl, dual>>

\* mutant: the analysis is written without the require on the timestamp
addXAIAnalysis_NoExistenceCheck(sender, _documentHash, _xaiAnalysis) ==
    /\ registry' =
         IF _xaiAnalysis = ""
         THEN Reverted("addXAIAnalysis", sender, _documentHash,
                       "XAI analysis cannot be empty")
         ELSE [registry EXCEPT
                 !.documents[_documentHash].xaiAnalysis = _xaiAnalysis,
                 !.call = Returned("addXAIAnalysis", sender, _documentHash, <<>>)]
    /\ UNCHANGED <<documents, chunks, nextId, nIngest, ing, srch, calc, hnd, upl, dual>>

\* lines 90-104
addXAIAnalysis(sender, _documentHash, _xaiAnalysis) ==
    /\ registry' =
         IF ~IsRegistered(registry.documents, _documentHash)
         THEN Reverted("addXAIAnalysis", sender, _documentHash, "Document not found")
         ELSE IF _xaiAnalysis = ""
         THEN Reverted("addXAIAnalysis", sender, _documentHash,
                       "XAI analysis cannot be empty")
         ELSE [registry EXCEPT
                 !.documents[_documentHash].xaiAnalysis = _xaiAnalysis,
                 !.call = Returned("addXAIAnalysis", sender, _documentHash, <<>>)]
    /\ UNCHANGED <<documents, chunks, nextId, nIngest, ing, srch, calc, hnd, upl, dual>>

\* mutant: the require on the confidence score is missing
ScoreInRange_Unchecked(_confidenceScore) == TRUE

\* line 120: _confidenceScore <= 100
ScoreInRange(_confidenceScore) == _confidenceScore <= 100

\* lines 112-136
verifyDocument(sender, _documentHash, _isVerified, _verificationStatus, _confidenceScore) ==
    /\ registry' =
         IF ~IsRegistered(registry.documents, _documentHash)
         THEN Reverted("verifyDocument", sender, _documentHash, "Document not found")
         ELSE IF ~ScoreInRange(_confidenceScore)
         THEN Reverted("verifyDocument", sender, _documentHash,
                       "Confidence score must be between 0 and 100")
         ELSE IF _verificationStatus = ""
         THEN Reverted("verifyDocument", sender, _documentHash,
                       "Verification status cannot be empty")
         ELSE [registry EXCEPT
                 !.documents[_documentHash].isVerified = _isVerified,
                 !.documents[_documentHash].verificationStatus = _verificationStatus,
                 !.documents[_documentHash].confidenceScore = _confidenceScore,
                 !.call = Returned("verifyDocument", sender, _documentHash, <<>>)]
    /\ UNCHANGED <<documents, chunks, nextId, nIngest, ing, srch, calc, hnd, upl, dual>>

\* lines 150-178; a view is called off-chain, here without a sender address
getDocument(_documentHash) ==
    /\ registry' =
         IF ~IsRegistered(registry.documents, _documentHash)
         THEN Reverted("getDocument", 0, _documentHash, "Document not found")
         ELSE [registry EXCEPT
                 !.call = Returned("getDocument", 0, _documentHash,
                                   registry.documents[_documentHash])]
    /\ UNCHANGED <<documents, chunks, nextId, nIngest, ing, srch, calc, hnd, upl, dual>>

\* lines 184-186
documentExists(_documentHash) ==
    /\ registry' =
         [registry EXCEPT
            !.call = Returned("documentExists", 0, _documentHash,
                              IsRegistered(registry.documents, _documentHash))]
    /\ UNCHANGED <<documents, chunks, nextId, nIngest, ing, srch, calc, hnd, upl, dual>>

\* lines 192-194
getTotalDocuments ==
    /\ registry' =
         [registry EXCEPT
            !.call = Returned("getTotalDocuments", 0, 0, Len(registry.documentHashes))]
    /\ UNCHANGED <<documents, chunks, nextId, nIngest, ing, srch, calc, hnd, upl, dual>>

\* mutant: the bound of the index is checked with <=
IndexInBounds_Inclusive(_index, length) == _index <= length

\* line 202: _index < documentHashes.length
IndexInBounds(_index, length) == _index < length

\* lines 201-204
getDocumentHashByIndex(_index) ==
    /\ registry' =
         IF ~IndexInBounds(_index, Len(registry.documentHashes))
         THEN Reverted("getDocumentHashByIndex", 0, _index, "Index out of bounds")
         ELSE [registry EXCEPT
                 !.call = Returned("getDocumentHashByIndex", 0, _index,
                                   IF _index + 1 \in DOMAIN registry.documentHashes
                                   THEN registry.documentHashes[_index + 1] ELSE 0)]
    /\ UNCHANGED <<documents, chunks, nextId, nIngest, ing, srch, calc, hnd, upl, dual>>

\* the next block is mined at a later time
MineBlock ==
    /\ registry.now < MaxBlockTime
    /\ registry' = [registry EXCEPT !.now = @ + 1]
    /\ UNCHANGED <<documents, chunks, nextId, nIngest, ing, srch, calc, hnd, upl, dual>>

DocumentNames == {"", "thesis.pdf"}
Analyses == {"", "{}"}
Verifications == {<<TRUE, "verified">>, <<FALSE, "rejected">>, <<TRUE, "">>}
Scores == {80, 101}

RegistryNext ==
    \/ \E sender \in Addresses, h \in Bytes32, name \in DocumentNames :
          registerDocument(sender, h, name)
    \/ \E sender \in Addresses, h \in Bytes32, a \in Analyses : addXAIAnalysis(sender, h, a)
    \/ \E sender \in Addresses, h \in Bytes32, v \in Verifications, score \in Scores :
          verifyDocument(sender, h, v[1], v[2], score)
    \/ \E h \in Bytes32 : getDocument(h)
    \/ \E h \in Bytes32 : documentExists(h)
    \/ getTotalDocuments
    \/ \E i \in 0..Cardinality(Bytes32) : getDocumentHashByIndex(i)
    \/ MineBlock

RegistrySpec == Init /\ [][RegistryNext]_vars

(***************************************************************************)
(* The integrated upload flow: POST /api/document/upload.  One request is  *)
(* handled at a time; every awaited store or chain call is one step.       *)
(***************************************************************************)
MaxUploads == 2

\* initializeServices: the chunking service exists when the database
\* handler could be initialised; the server listens in either case
initializeServices(dbOk) ==
    /\ upl.pc = "starting"
    /\ upl' = [upl EXCEPT !.pc = "idle", !.chunkingService = dbOk]
    /\ UNCHANGED <<documents, chunks, nextId, nIngest, ing, srch, calc, hnd, registry, dual>>

\* an uploaded text: the contents of its sections (the chunks that
\* splitIntoChunks cuts it into) and whether it is longer than 50 characters;
\* a text of at most 50 characters is one section
UploadTexts ==
    {[sections |-> s, long |-> l] :
        s \in {<<1>>, <<2>>, <<3>>, <<1, 3>>}, l \in BOOLEAN}
    \ {[sections |-> <<1, 3>>, long |-> FALSE]}

UploadDocumentTypes == {"research_paper", "certificate"}

\* what the Python detectors can report
PlagiarismResults ==
    {[isPlagiarized |-> FALSE, similarityScore |-> 10],
     [isPlagiarized |-> TRUE, similarityScore |-> 90]}
AIDetectionResults ==
    {[isAIGenerated |-> FALSE, aiProbability |-> 20],
     [isAIGenerated |-> TRUE, aiProbability |-> 90]}
ForgeryResults == {[isForged |-> FALSE], [isForged |-> TRUE]}

\* Math.round of tenths / 10
MathRoundTenths(tenths) == (tenths + 5) \div 10

\* real-analyzer.js combineResults; the score is kept in tenths until rounded
combineResults(documentHash, documentText, plagiarismResults, aiDetectionResults, forgeryResults) ==
    LET isForged == forgeryResults # Null /\ forgeryResults.isForged
        afterPlagiarism ==
            IF plagiarismResults.isPlagiarized THEN 1000 - 400
            ELSE 1000 - 3 * plagiarismResults.similarityScore
        afterAI ==
            IF aiDetectionResults.isAIGenerated THEN afterPlagiarism - 350
            ELSE afterPlagiarism - 2 * aiDetectionResults.aiProbability
        confidenceScore == IF isForged THEN 0 ELSE afterAI
    IN  [documentHash |-> documentHash,
         documentText |-> documentText,
         status |-> IF \/ plagiarismResults.isPlagiarized
                       \/ aiDetectionResults.isAIGenerated
                       \/ isForged
                    THEN "rejected" ELSE "verified",
         confidenceScore |-> Max(0, MathRoundTenths(confidenceScore)),
         plagiarismCheck |-> plagiarismResults,
         aiDetection |-> aiDetectionResults,
         certificateForgery |-> forgeryResults,
         rejectionReasons |->
             (IF plagiarismResults.isPlagiarized THEN <<"plagiarism">> ELSE <<>>)
             \o (IF aiDetectionResults.isAIGenerated THEN <<"ai_generated">> ELSE <<>>)
             \o (IF isForged THEN <<"certificate_forgery">> ELSE <<>>)]

\* Step 1: analyzeDocument hashes the file, runs the detectors (the forgery
\* check for certificates only) and combines their results
UploadAnalyze(documentText, documentType, plagiarismResults, aiDetectionResults, forgeryResults) ==
    /\ upl.pc = "idle"
    /\ nextId <= MaxUploads
    /\ (forgeryResults # Null) <=> (documentType = "certificate")
    /\ upl' = [upl EXCEPT
                 !.pc = "checkHash",
                 !.xaiResults = combineResults(sha256(documentText), documentText,
                                               plagiarismResults, aiDetectionResults,
                                               forgeryResults),
                 !.maxSimilarity = <<0, 1>>,
                 !.documentId = 0,
                 !.stored = 0,
                 !.blockchainData = Null,
                 !.storeFailed = FALSE,
                 !.res = Null]
    /\ UNCHANGED <<documents, chunks, nextId, nIngest, ing, srch, calc, hnd, registry, dual>>

\* the response of the request
UploadResponse(status, error) == [status |-> status, error |-> error]

\* Step 1.5: an exact duplicate by hash is refused
UploadCheckHash ==
    /\ upl.pc = "checkHash"
    /\ upl' = IF \E d \in documents : d.doc_hash = upl.xaiResults.documentHash
              THEN [upl EXCEPT !.pc = "done",
                               !.res = UploadResponse(400, "Duplicate file detected")]
              ELSE [upl EXCEPT !.pc = "matching"]
    /\ UNCHANGED <<documents, chunks, nextId, nIngest, ing, srch, calc, hnd, registry, dual>>

\* PostgreSQL similarity(chunk_text, $1) of two section contents, in percent
similarity_score(a, b) ==
    IF a = b THEN 100
    ELSE IF {a, b} = {1, 2} THEN 80
    ELSE IF {a, b} = {1, 3} THEN 40
    ELSE 0

\* searchSimilarChunks: the stored chunks more than 0.3 similar to the query;
\* when the similarity query fails, the fallback returns the stored chunks
\* without a score
searchSimilarChunks(queryText, trgmOk) ==
    IF trgmOk
    THEN {[chunk |-> c, similarity_score |-> similarity_score(c.chunk_text, queryText)] :
             c \in {x \in chunks : similarity_score(x.chunk_text, queryText) > 30}}
    ELSE {[chunk |-> c, similarity_score |-> 0] : c \in chunks}

\* findSimilarChunks: similarity is similarity_score || 0.5; when the store
\* cannot be queried (no connection, or the fallback query fails too) the
\* error is caught and the result is []
findSimilarChunks(queryText, trgmOk, storeOk) ==
    IF ~storeOk THEN {} ELSE
    {[document_id |-> m.chunk.document_id,
      matchedSection |-> m.chunk.chunk_index,
      similarity |-> IF m.similarity_score = 0 THEN 50 ELSE m.similarity_score] :
        m \in searchSimilarChunks(queryText, trgmOk)}

\* Step 2: the matches above 0.25 of every section of the upload
AllMatches(documentText, trgmOk, storeOk) ==
    UNION {{[yourSection |-> i, document_id |-> m.document_id,
             matchedSection |-> m.matchedSection, similarity |-> m.similarity] :
               m \in {x \in findSimilarChunks(documentText.sections[i], trgmOk, storeOk) :
                         x.similarity > 25}} :
           i \in 1..Len(documentText.sections)}

RECURSIVE TotalSimilarity(_)
TotalSimilarity(matches) ==
    IF matches = {} THEN 0
    ELSE LET m == CHOOSE x \in matches : TRUE
         IN  m.similarity + TotalSimilarity(matches \ {m})

\* docGroups: total similarity and section count of a matched document
DocGroup(allMatches, docId) ==
    LET matches == {m \in allMatches : m.document_id = docId}
    IN  <<TotalSimilarity(matches), Cardinality(matches)>>

\* similarDocuments[0].average_similarity (in percent, as total / count),
\* 0 when nothing matched
MaxSimilarity(allMatches) ==
    IF allMatches = {} THEN <<0, 1>>
    ELSE LET ids == {m.document_id : m \in allMatches}
             top == CHOOSE d \in ids : \A e \in ids :
                       ~FracLess(DocGroup(allMatches, d), DocGroup(allMatches, e))
         IN  DocGroup(allMatches, top)

SIMILARITY_THRESHOLD == 75

\* similarityPercentage > SIMILARITY_THRESHOLD
AboveThreshold(maxSimilarity) ==
    maxSimilarity[1] > SIMILARITY_THRESHOLD * maxSimilarity[2]

\* Math.max(0, Math.round(100 - similarityPercentage * 0.8))
UploadConfidence(maxSimilarity) ==
    LET t == maxSimilarity[1]
        c == maxSimilarity[2]
    IN  Max(0, (2 * (500 * c - 4 * t) + 5 * c) \div (10 * c))

\* Steps 2 and 2.5: fuzzy matching when the text is longer than 50 characters
\* and the chunking service exists, then the threshold check; an upload that
\* is not refused has its status and confidence score set from the similarity
UploadMatch(trgmOk, storeOk) ==
    /\ upl.pc = "matching"
    /\ LET documentText == upl.xaiResults.documentText
           queried == documentText.long /\ upl.chunkingService
           allMatches == IF queried
                         THEN AllMatches(documentText, trgmOk, storeOk) ELSE {}
           maxSimilarity == MaxSimilarity(allMatches)
           base == [upl EXCEPT !.storeFailed = queried /\ ~storeOk]
       IN  upl' =
             IF AboveThreshold(maxSimilarity)
             THEN [base EXCEPT !.pc = "done",
                              !.maxSimilarity = maxSimilarity,
                              !.res = UploadResponse(400,
                                        "Upload rejected - High similarity detected")]
             ELSE [base EXCEPT
                     !.pc = "save",
                     !.maxSimilarity = maxSimilarity,
                     !.xaiResults.plagiarismCheck =
                         [isPlagiarized |-> AboveThreshold(maxSimilarity),
                          similarityScore |-> maxSimilarity],
                     !.xaiResults.status =
                         IF ~AboveThreshold(maxSimilarity) THEN "verified" ELSE "rejected",
                     !.xaiResults.confidenceScore = UploadConfidence(maxSimilarity)]
    /\ UNCHANGED <<documents, chunks, nextId, nIngest, ing, srch, calc, hnd, registry, dual>>

\* Step 3: createDocument
UploadCreateDocument(storeOk) ==
    /\ upl.pc = "save"
    /\ IF storeOk
       THEN /\ documents' = documents \cup
                  {[id |-> nextId, doc_hash |-> upl.xaiResults.documentHash,
                    status |-> upl.xaiResults.status, blockchainData |-> Null]}
            /\ nextId' = nextId + 1
            /\ upl' = [upl EXCEPT !.pc = "chunks", !.documentId = nextId]
       ELSE /\ upl' = [upl EXCEPT !.pc = "done",
                                  !.res = UploadResponse(500, "createDocument failed")]
            /\ UNCHANGED <<documents, nextId>>
    /\ UNCHANGED <<chunks, nIngest, ing, srch, calc, hnd, registry, dual>>

\* Step 3.5: processDocument stores the chunks one by one when the text is
\* longer than 50 characters and the chunking service exists; an error stops
\* it after `stored` chunks and is only logged
UploadSaveChunks(stored) ==
    /\ upl.pc = "chunks"
    /\ LET documentText == upl.xaiResults.documentText
           n == IF documentText.long /\ upl.chunkingService
                THEN Len(documentText.sections) ELSE 0
       IN  /\ stored <= n
           /\ chunks' = chunks \cup
                 {[document_id |-> upl.documentId, chunk_index |-> i - 1,
                   chunk_text |-> documentText.sections[i],
                   chunk_hash |-> sha256(documentText.sections[i])] : i \in 1..stored}
           /\ upl' = [upl EXCEPT !.pc = "register", !.stored = stored]
    /\ UNCHANGED <<documents, nextId, nIngest, ing, srch, calc, hnd, registry, dual>>

\* Step 4: a verified document is registered on the blockchain; a failure of
\* the connector ends the request with status 500
UploadRegister(chainOk) ==
    /\ upl.pc = "register"
    /\ upl' =
         IF upl.xaiResults.status = "verified"
         THEN IF chainOk
              THEN [upl EXCEPT
                      !.pc = "update",
                      !.registered = @ \cup {upl.xaiResults.documentHash},
                      !.blockchainData =
                          [documentHash |-> upl.xaiResults.documentHash,
                           confidenceScore |-> upl.xaiResults.confidenceScore]]
              ELSE [upl EXCEPT !.pc = "done",
                               !.res = UploadResponse(500, "registerDocument failed")]
         ELSE [upl EXCEPT !.pc = "update"]
    /\ UNCHANGED <<documents, chunks, nextId, nIngest, ing, srch, calc, hnd, registry, dual>>

\* Step 5: updateDocument with the results, then the response
UploadUpdate(storeOk) ==
    /\ upl.pc = "update"
    /\ IF storeOk
       THEN /\ documents' =
                 {IF d.id = upl.documentId
                  THEN [d EXCEPT !.status = upl.xaiResults.status,
                                 !.blockchainData = upl.blockchainData,
                                 !.doc_hash = upl.xaiResults.documentHash]
                  ELSE d : d \in documents}
            /\ upl' = [upl EXCEPT !.pc = "done", !.res = UploadResponse(200, "")]
       ELSE /\ upl' = [upl EXCEPT !.pc = "done",
                                  !.res = UploadResponse(500, "updateDocument failed")]
            /\ UNCHANGED documents
    /\ UNCHANGED <<chunks, nextId, nIngest, ing, srch, calc, hnd, registry, dual>>

\* the response has been sent; the server takes the next upload
UploadReturn ==
    /\ upl.pc = "done"
    /\ upl' = [upl EXCEPT !.pc = "idle"]
    /\ UNCHANGED <<documents, chunks, nextId, nIngest, ing, srch, calc, hnd, registry, dual>>

UploadNext ==
    \/ \E dbOk \in BOOLEAN : initializeServices(dbOk)
    \/ \E documentText \in UploadTexts, documentType \in UploadDocumentTypes,
          plagiarismResults \in PlagiarismResults,
          aiDetectionResults \in AIDetectionResults,
          forgeryResults \in ForgeryResults \cup {Null} :
            UploadAnalyze(documentText, documentType, plagiarismResults,
                          aiDetectionResults, forgeryResults)
    \/ UploadCheckHash
    \/ \E trgmOk, storeOk \in BOOLEAN : UploadMatch(trgmOk, storeOk)
    \/ \E storeOk \in BOOLEAN : UploadCreateDocument(storeOk)
    \/ \E stored \in 0..2 : UploadSaveChunks(stored)
    \/ \E chainOk \in BOOLEAN : UploadRegister(chainOk)
    \/ \E storeOk \in BOOLEAN : UploadUpdate(storeOk)
    \/ UploadReturn

UploadSpec == Init /\ [][UploadNext]_vars

(***************************************************************************)
(* The dual PostgreSQL + JSON DatabaseHandler (real-analyzer.js 328-438)   *)
(***************************************************************************)

\* createDocument calls made on one dual handler
MaxDualCalls == 3

\* the doc_hash values of the documents handed to createDocument
DualHashes == {"h1", "h2"}

\* what initialize finds at dbPath
JsonFileStates == {"missing", "empty", "corrupt", "valid"}

\* Math.max(a, b) of JavaScript: NaN as soon as one argument is undefined or
\* NaN
MathMax(a, b) ==
    IF IsInteger(a) /\ IsInteger(b)
    THEN (IF a.number >= b.number THEN a ELSE b)
    ELSE NaN

\* x++ of JavaScript: the value read and the value stored; undefined and NaN
\* both convert to NaN
PostIncrement(x) ==
    IF IsInteger(x) THEN [value |-> x, stored |-> Num(x.number + 1)]
    ELSE [value |-> NaN, stored |-> NaN]

\* a === b of JavaScript on numbers: NaN equals nothing, itself included
StrictEquals(a, b) == IsInteger(a) /\ IsInteger(b) /\ a.number = b.number

\* Array.prototype.findIndex(doc => doc.id === id), 0 when no element matches
FindIndexById(docs, id) ==
    IF \E k \in 1..Len(docs) : StrictEquals(docs[k].id, id)
    THEN CHOOSE k \in 1..Len(docs) :
            /\ StrictEquals(docs[k].id, id)
            /\ \A j \in 1..(k - 1) : ~StrictEquals(docs[j].id, id)
    ELSE 0

\* initialize, lines 339-390: an empty file or one that does not parse is
\* replaced by { documents: [] }, which has no nextId; a file that parses is
\* what an earlier run saved; without a file the constructor's data is kept.
\* usePostgres is set when DATABASE_URL is there and PostgreSQL comes up
DualInitialize(file, pgOk) ==
    /\ dual.pc = "constructed"
    /\ dual' = [dual EXCEPT
                  !.pc = "ready",
                  !.usePostgres = pgOk,
                  !.data = IF file \in {"empty", "corrupt"}
                           THEN [documents |-> <<>>, nextId |-> Undefined]
                           ELSE [documents |-> <<>>, nextId |-> Num(1)]]
    /\ UNCHANGED <<documents, chunks, nextId, nIngest, ing, srch, calc, hnd, registry, upl>>

\* createDocument, lines 396-438, with the PostgreSQL createDocument it
\* awaits (postgres-handler.js 49-100): the row inserted, or the row that
\* already holds the doc_hash, is copied into the JSON data under its id,
\* over the record that has this id if there is one; when PostgreSQL is not
\* in use or its insert fails the document gets id nextId++ in the JSON data
DualCreateDocument(docHash, storeOk) ==
    /\ dual.pc = "ready"
    /\ Len(dual.created) < MaxDualCalls
    /\ LET data == dual.data
           viaPg == dual.usePostgres /\ storeOk
           conflict == DocHashConflict(documents, docHash)
           pgDocument ==
               IF conflict
               THEN CHOOSE d \in documents : d.doc_hash = docHash
               ELSE [id |-> nextId, doc_hash |-> docHash, status |-> "analyzing"]
           existingIndex == FindIndexById(data.documents, Num(pgDocument.id))
           synced == [id |-> Num(pgDocument.id), doc_hash |-> docHash]
           inc == PostIncrement(data.nextId)
           fallback == [id |-> inc.value, doc_hash |-> docHash]
       IN  IF viaPg
           THEN /\ documents' = documents \cup {pgDocument}
                /\ nextId' = nextId + 1
                /\ dual' = [dual EXCEPT
                              !.data = [documents |->
                                            IF existingIndex >= 1
                                            THEN [data.documents EXCEPT
                                                    ![existingIndex] = synced]
                                            ELSE Append(data.documents, synced),
                                        nextId |->
                                            MathMax(data.nextId, Num(pgDocument.id + 1))],
                              !.created = Append(@, Num(pgDocument.id))]
           ELSE /\ dual' = [dual EXCEPT
                              !.data = [documents |-> Append(data.documents, fallback),
                                        nextId |-> inc.stored],
                              !.created = Append(@, fallback.id)]
                /\ UNCHANGED <<documents, nextId>>
    /\ UNCHANGED <<chunks, nIngest, ing, srch, calc, hnd, registry, upl>>

DualNext ==
    \/ \E file \in JsonFileStates, pgOk \in BOOLEAN : DualInitialize(file, pgOk)
    \/ \E docHash \in DualHashes, storeOk \in BOOLEAN :
          DualCreateDocument(docHash, storeOk)

DualSpec == Init /\ [][DualNext]_vars

(***************************************************************************)
(* Properties.                                                             *)
(***************************************************************************)
\* the text of the pending search after normalization, and its chunks
SearchText == normalize(srch.raw)
SearchChunks == chunkText(SearchText)
SearchChunkHashes == {sha256(SearchChunks[i]) : i \in 1..Len(SearchChunks)}

\* the pending search returned a result (it did not fail)
SearchAnswered == srch.pending /\ srch.outcome.matchType # "error"

\* ingestDocument call p has returned status 'imported'
Imported(p) == ing[p].pc = "done" /\ ing[p].result.status = "imported"

\* the pending search was handed the content that call p imported
RoundTrip(p) == Imported(p) /\ SearchAnswered /\ SearchText = ing[p].normalizedText

IsDocumentMatchOf(p) ==
    /\ srch.outcome.matchType = "document"
    /\ srch.outcome.score = <<1, 1>>
    /\ srch.outcome.docId = ing[p].result.id

\* C1 as stated: after ingestDocument(T) has returned 'imported' with id d, a
\* search for any input with the same normalized text answers matchType
\* 'document', score 1.0 and docId d.
C1_RoundTripAnyText ==
    \A p \in Procs : RoundTrip(p) => IsDocumentMatchOf(p)

\* C1 amended: the round trip holds for every text whose normalized form is
\* not empty (the search answers empty text before it looks anything up).
C1_RoundTrip ==
    \A p \in Procs :
        RoundTrip(p) /\ ing[p].normalizedText # <<>> => IsDocumentMatchOf(p)

\* an imported text is searched for in another spelling and found
C1_Witness ==
    /\ RoundTrip(1)
    /\ srch.raw # ing[1].normalizedText
    /\ Len(ing[1].normalizedText) > 1
    /\ IsDocumentMatchOf(1)

\* C2: a call that ends 'duplicate' carries the id of the stored row with its
\* content (the id a call that imported that content returned) and has
\* inserted nothing; and a call whose content is stored when it looks it up
\* ends 'duplicate' in that step, without an error and without a new document
\* row or chunk row.
C2_DuplicateResult ==
    \A p \in Procs :
        ing[p].pc = "done" /\ ing[p].result.status = "duplicate" =>
            /\ \E d \in documents : /\ d.id = ing[p].result.id
                                    /\ d.doc_hash = sha256(ing[p].normalizedText)
            /\ ing[p].documentId = 0 /\ ing[p].chunkCount = 0
            /\ \A q \in Procs :
                  Imported(q) /\ ing[q].normalizedText = ing[p].normalizedText =>
                      ing[q].result.id = ing[p].result.id

C2_DuplicateStep ==
    \A p \in Procs :
        /\ ing[p].pc = "idle" /\ ing'[p].pc # "idle"
        /\ DocHashConflict(documents, sha256(ing'[p].normalizedText))
        => /\ ing'[p].pc = "done"
           /\ ing'[p].result.status = "duplicate"
           /\ documents' = documents
           /\ chunks' = chunks

DocumentStored == \E d \in documents : d.doc_hash = sha256(SearchText)
ChunkStored == \E c \in chunks : c.chunk_hash \in SearchChunkHashes

\* C3: a search of non-empty text that returns, returns exactly one of the
\* three variants, in tier order: 'document' iff a stored document has the
\* hash of the text, else 'exact_chunks' iff a submitted chunk hash is stored,
\* else 'fuzzy_trigram'.
C3_TierOrder ==
    SearchAnswered /\ SearchText # <<>> =>
        /\ srch.outcome.matchType \in {"document", "exact_chunks", "fuzzy_trigram"}
        /\ srch.outcome.matchType = "document" <=> DocumentStored
        /\ srch.outcome.matchType = "exact_chunks" <=> ~DocumentStored /\ ChunkStored
        /\ srch.outcome.matchType = "fuzzy_trigram" <=> ~DocumentStored /\ ~ChunkStored
        /\ srch.outcome.matchType # "exact_chunks" => srch.outcome.results = <<>>
              \/ srch.outcome.matchType = "fuzzy_trigram"
        /\ srch.outcome.matchType = "exact_chunks" => srch.outcome.results # <<>>

\* the middle tier answers: the document is unknown, one of its chunks is not
C3_Witness ==
    /\ SearchAnswered
    /\ srch.outcome.matchType = "exact_chunks"
    /\ ~DocumentStored
    /\ Cardinality(documents) = 2

Issued(kind) == \E i \in 1..Len(srch.outcome.queries) : srch.outcome.queries[i] = kind

\* C4: the matcher short-circuits.  After a document-hash hit no other query
\* is issued; after a chunk-hash hit no fuzzy query is issued and the answer
\* is exact_chunks whatever its scores; fuzzy queries are issued only when
\* both exact lookups found nothing.
C4_ShortCircuit ==
    srch.pending /\ SearchText # <<>> =>
        /\ DocumentStored /\ srch.failed # 1 =>
              srch.outcome.queries = <<"document">> /\ srch.outcome.matchType = "document"
        /\ ~DocumentStored /\ ChunkStored /\ srch.failed \notin {1, 2} =>
              /\ ~Issued("fuzzy")
              /\ srch.failed = 0 => srch.outcome.matchType = "exact_chunks"
        /\ Issued("fuzzy") =>
              /\ ~DocumentStored /\ ~ChunkStored
              /\ Len(srch.outcome.queries) >= 3
              /\ srch.outcome.queries[1] = "document"
              /\ srch.outcome.queries[2] = "chunks"

\* an exact_chunks answer whose best score is below 1/2 ends the search
\* without a fuzzy query
C4_Witness ==
    /\ SearchAnswered
    /\ srch.outcome.matchType = "exact_chunks"
    /\ \A i \in 1..Len(srch.outcome.results) :
          ~FracLess(<<1, 2>>, srch.outcome.results[i].score)
    /\ ~Issued("fuzzy")

\* the positions of the submitted chunks whose hash is stored under docId
MatchedPositions(docId) ==
    {i \in 1..Len(SearchChunks) :
        \E c \in chunks : c.document_id = docId /\ c.chunk_hash = sha256(SearchChunks[i])}

\* C5: in an exact_chunks answer for the submitted document A every candidate
\* B has score = (number of A's chunks matched in B) / (number of A's chunks),
\* a value in (0, 1].
C5_ScoreOverSubmitted ==
    SearchAnswered /\ srch.outcome.matchType = "exact_chunks" =>
        \A i \in 1..Len(srch.outcome.results) :
            LET r == srch.outcome.results[i]
            IN  /\ r.score = Frac(Cardinality(MatchedPositions(r.docId)), Len(SearchChunks))
                /\ FracLess(<<0, 1>>, r.score)
                /\ ~FracLess(<<1, 1>>, r.score)

\* C6: matchedChunks is the number of submitted chunk positions whose hash is
\* stored under the candidate, so a submission whose every chunk is stored
\* under one candidate scores 1.0 for it, whatever chunk texts it repeats.
C6_MatchedPositions ==
    SearchAnswered /\ srch.outcome.matchType = "exact_chunks" =>
        \A i \in 1..Len(srch.outcome.results) :
            LET r == srch.outcome.results[i]
            IN  /\ r.matchedChunks = Cardinality(MatchedPositions(r.docId))
                /\ MatchedPositions(r.docId) = 1..Len(SearchChunks) => r.score = <<1, 1>>

\* C7: when a store query of searchDocument fails, the call fails with an
\* error for that query and returns no match result; a call none of whose
\* queries failed does not fail.
C7_StoreFailureIsError ==
    srch.pending =>
        /\ srch.failed # 0 =>
              /\ srch.outcome.matchType = "error"
              /\ srch.outcome.results = <<>>
              /\ Len(srch.outcome.queries) = srch.failed
        /\ srch.failed = 0 => srch.outcome.matchType # "error"

\* the second per-chunk fuzzy query fails after the first one found a row
C7_Witness ==
    /\ srch.pending
    /\ srch.failed = 4
    /\ srch.outcome.queries[4] = "fuzzy"
    /\ srch.outcome.matchType = "error"
    /\ \E c \in chunks : SimilarText(c.chunk_text, SearchChunks[1])

\* C8: a call that ends without a document row of its own while its content
\* is stored (it lost the race on doc_hash) returns 'duplicate' with the
\* stored row's id, and the content is stored once.
C8_RaceLoserIsDuplicate ==
    \A p \in Procs :
        ing[p].pc = "done" /\ ing[p].documentId = 0 =>
            \A d \in documents :
                d.doc_hash = sha256(ing[p].normalizedText) =>
                    /\ ing[p].result.status = "duplicate"
                    /\ ing[p].result.id = d.id
                    /\ Cardinality(SelectDocumentByHash(documents, d.doc_hash)) = 1

\* C9: when a call has ended, the store holds its document row together with
\* every chunk of the document, or neither the row nor any chunk of it.
C9_AtomicIngestion ==
    \A p \in Procs :
        ing[p].pc = "done" =>
            LET parts == chunkText(ing[p].normalizedText)
                rowStored == \E d \in documents : d.id = ing[p].documentId
                allChunks == \A i \in 1..Len(parts) :
                                ChunkHashConflict(chunks, sha256(parts[i]))
                noChunks == \A c \in chunks : c.document_id # ing[p].documentId
            IN  (rowStored /\ allChunks) \/ (~rowStored /\ noChunks)

\* C10: no two chunk rows have the same chunk hash, an exact lookup of a
\* stored hash finds the one row that holds it, and a stored row is never
\* removed or rewritten by a later ingestion, so a chunk text stays with the
\* document that inserted it first.
C10_ChunkHashUniqueNow ==
    \A c1, c2 \in chunks :
        c1.chunk_hash = c2.chunk_hash =>
            /\ c1 = c2
            /\ ExactMatchRows(documents, chunks, {c1.chunk_hash}) = {c1}

C10_ChunkHashUnique ==
    [](C10_ChunkHashUniqueNow) /\ [][chunks \subseteq chunks']_vars

\* two imported documents share a chunk text; its only row is the first one's
C10_Witness ==
    /\ Imported(1) /\ Imported(2)
    /\ ing[2].chunkCount < Len(chunkText(ing[2].normalizedText))
    /\ \E i \in 1..Len(chunkText(ing[2].normalizedText)) :
          \E c \in chunks :
              /\ c.chunk_hash = sha256(chunkText(ing[2].normalizedText)[i])
              /\ c.document_id = ing[1].documentId
              /\ ing[1].documentId < ing[2].documentId

\* the chunk rows that document docId owns
ChunkRowsOf(docId) == {c \in chunks : c.document_id = docId}

\* C11: for every stored document the chunk_index values of the chunk rows it
\* owns are 0-based and contiguous: a document that owns k rows owns the
\* indices 0, 1, ..., k-1.
C11_ContiguousIndices ==
    \A d \in documents :
        {c.chunk_index : c \in ChunkRowsOf(d.id)} = 0..(Cardinality(ChunkRowsOf(d.id)) - 1)

\* the classifier has computed the contributions / the classification
Contributed == calc.op = "academic" /\ calc.stage \in {"contributions", "classified"}
Classified == calc.op = "academic" /\ calc.stage = "classified"

\* C13: when the match result is the whole-document exact match, the
\* classifier's similarity is 100% and its verdict is 'Plagiarism Detected'
\* with risk critical and action REJECT, for every feature set.
C13_DocumentMatchIsPlagiarism ==
    calc.op = "academic" /\ calc.matchResults.matchType = "document" =>
        /\ Contributed => calc.contributions.textualSimilarity = <<100, 1>>
        /\ Classified =>
              /\ calc.classification.label = "Plagiarism Detected"
              /\ calc.classification.riskLevel = "critical"
              /\ calc.classification.actionRequired = "REJECT"
              /\ calc.classification.overallScore = <<100, 1>>

\* a whole-document match is classified for a feature set that scores nothing
C13_Witness ==
    /\ Classified
    /\ calc.matchResults.matchType = "document"
    /\ calc.contributions.lexicalPatterns = <<20, 1>>
    /\ calc.contributions.documentStructure = <<0, 1>>
    /\ calc.classification.label = "Plagiarism Detected"

\* similarity s = n/d percent
SimilarityIs(n, d) == calc.contributions.textualSimilarity = Frac(n, d)
VerdictIs(label, riskLevel, confidence, actionRequired) ==
    /\ calc.classification.label = label
    /\ calc.classification.riskLevel = riskLevel
    /\ calc.classification.confidence = confidence
    /\ calc.classification.actionRequired = actionRequired

Answered == srch.pending /\ srch.outcome.matchType # "error"

\* the answer carries a classification verdict: label, risk level and action
HasVerdict(outcome) ==
    /\ "xaiAnalysis" \in DOMAIN outcome
    /\ "classification" \in DOMAIN outcome.xaiAnalysis
    /\ {"label", "riskLevel", "actionRequired"} \subseteq DOMAIN outcome.xaiAnalysis.classification

\* C12: whenever the store can be queried, evaluating a text returns a result
\* that carries a classification verdict (label, risk level, action), whichever
\* tier produced the match and whether the text is analysed as an academic or
\* as a verification document; the verdict is never missing and never replaced
\* by an analysis-failed error.
C12_VerdictAlwaysPresent ==
    Answered /\ normalize(srch.raw) # <<>> => HasVerdict(srch.outcome)

\* C15: evaluating text that is empty after normalization returns matchType
\* 'fuzzy_trigram' with an empty result list together with a verdict of
\* 'Original' with risk 'none'; no store query is issued and no error is
\* returned, whatever the store contains.
C15_EmptyTextIsOriginal ==
    srch.pending /\ normalize(srch.raw) = <<>> =>
        /\ srch.outcome.matchType = "fuzzy_trigram"
        /\ srch.outcome.results = <<>>
        /\ srch.outcome.queries = <<>>
        /\ HasVerdict(srch.outcome)
        /\ srch.outcome.xaiAnalysis.classification.label = "Original"
        /\ srch.outcome.xaiAnalysis.classification.riskLevel = "none"

\* the candidates of a result are in score order, ties in matched-chunk order
RankedByScoreThenMatches(results) ==
    \A i, j \in 1..Len(results) :
        i < j =>
            /\ ~FracLess(results[i].score, results[j].score)
            /\ results[i].score = results[j].score =>
                  results[i].matchedChunks >= results[j].matchedChunks

\* C16: in every exact_chunks and fuzzy_trigram result, candidates are ordered
\* by score descending, and any two candidates with equal score are ordered by
\* their matched-chunk count descending.
C16_RankedWithTieBreak ==
    Answered /\ srch.outcome.matchType \in {"exact_chunks", "fuzzy_trigram"} =>
        RankedByScoreThenMatches(srch.outcome.results)

\* chunkText has returned for a non-empty text and 0 <= overlapWords < windowWords
ChunkedInRange ==
    /\ calc.op = "chunkText" /\ calc.stage = "returned"
    /\ calc.overlapWords < calc.sizeWords

\* the words of the text chunked and of chunk number i (1-based)
TextWords == SplitWords(normalize(calc.text), <<>>)
ChunkWords(i) == SplitWords(calc.chunks[i], <<>>)

\* the last n and the first n words of a word sequence
LastWords(ws, n) == SubSeq(ws, Len(ws) - n + 1, Len(ws))
FirstWords(ws, n) == SubSeq(ws, 1, n)

\* the words two chunks have in common (the words of the text are distinct)
SharedWords(i, j) ==
    {ChunkWords(i)[k] : k \in 1..Len(ChunkWords(i))}
        \cap {ChunkWords(j)[k] : k \in 1..Len(ChunkWords(j))}

\* C17: for every non-empty text and 0 <= overlapWords < windowWords,
\* chunkText returns chunks in increasing start-offset order (chunk number i
\* starts i * (windowWords - overlapWords) words into the text), each with at
\* most windowWords words, and every pair of consecutive chunks shares exactly
\* overlapWords words, the tail of one being the head of the next, except
\* possibly the pair ending in the last chunk.
C17_Windows ==
    ChunkedInRange /\ TextWords # <<>> =>
        LET N == Len(calc.chunks)
            step == calc.sizeWords - calc.overlapWords
        IN  /\ N >= 1
            /\ \A i \in 1..N :
                  /\ Len(ChunkWords(i)) >= 1
                  /\ Len(ChunkWords(i)) <= calc.sizeWords
                  /\ ChunkWords(i) = SubSeq(TextWords, (i - 1) * step + 1,
                                            (i - 1) * step + Len(ChunkWords(i)))
            /\ \A i \in 1..(N - 2) :
                  /\ Cardinality(SharedWords(i, i + 1)) = calc.overlapWords
                  /\ LastWords(ChunkWords(i), calc.overlapWords)
                        = FirstWords(ChunkWords(i + 1), calc.overlapWords)

\* six words in windows of three overlapping by two: four chunks
C17_Witness ==
    /\ ChunkedInRange
    /\ Len(TextWords) = 6 /\ calc.sizeWords = 3 /\ calc.overlapWords = 2
    /\ Len(calc.chunks) = 4
    /\ SharedWords(2, 3) = {<<99>>, <<100>>}

\* the word sequence sub occurs in ws as a contiguous run
ContainsSpan(ws, sub) ==
    \E p \in 0..(Len(ws) - Len(sub)) : SubSeq(ws, p + 1, p + Len(sub)) = sub

\* C18: for every word sequence and every 0 <= overlapWords < windowWords,
\* every contiguous span of overlapWords words of the text (overlapWords >= 1)
\* is fully contained in at least one chunk returned by chunkText.
C18_SpansCovered ==
    ChunkedInRange /\ calc.overlapWords >= 1 =>
        \A p \in 0..(Len(TextWords) - calc.overlapWords) :
            \E i \in 1..Len(calc.chunks) :
                ContainsSpan(ChunkWords(i), SubSeq(TextWords, p + 1, p + calc.overlapWords))

\* four words in windows of three overlapping by one: the span that is the
\* last word lies in the shorter window at the end only
C18_Witness ==
    /\ ChunkedInRange
    /\ Len(TextWords) = 4 /\ calc.sizeWords = 3 /\ calc.overlapWords = 1
    /\ Len(calc.chunks) = 2
    /\ ChunkWords(2) = <<<<99>>, <<100>>>>

\* normalize has returned
Normalized == calc.op = "normalize" /\ calc.stage \in {"once", "twice"}

\* a string: a finite sequence of UTF-16 code units
IsString(x) == DOMAIN x = 1..Len(x) /\ \A i \in 1..Len(x) : x[i] \in 0..65535

\* the value is nothing, or a string of whitespace only
IsBlank(v) ==
    \/ v.type \in {"null", "undefined"}
    \/ v.type = "string" /\ \A i \in 1..Len(v.value) : IsWhitespace(v.value[i])

C20_Clean ==
    Normalized =>
        LET out == calc.once
        IN  /\ \A i \in 1..Len(out) : ~(out[i] \in 0..31 \/ out[i] = 127)
            /\ \A i \in 1..(Len(out) - 1) : ~(IsWhitespace(out[i]) /\ IsWhitespace(out[i + 1]))
            /\ out # <<>> => ~IsWhitespace(out[1]) /\ ~IsWhitespace(out[Len(out)])

\* a text with leading and doubled whitespace comes out as 'a a'
C20_Witness ==
    /\ Normalized
    /\ calc.value = StringValue(<<160, 65, 32, 160, 65>>)
    /\ calc.once = <<97, 32, 97>>

\* the words of a text: its maximal runs of non-whitespace code units
RECURSIVE WhitespaceSeparated(_, _)
WhitespaceSeparated(s, cur) ==
    IF s = <<>> THEN (IF cur = <<>> THEN <<>> ELSE <<cur>>)
    ELSE IF IsWhitespace(Head(s))
         THEN (IF cur = <<>> THEN <<>> ELSE <<cur>>) \o WhitespaceSeparated(Tail(s), <<>>)
         ELSE WhitespaceSeparated(Tail(s), Append(cur, Head(s)))

\* a word without its control characters, in lower case
CleanWord(w) ==
    LET kept == SelectSeq(w, LAMBDA c : ~(c \in 0..31 \/ c = 127))
    IN  [i \in 1..Len(kept) |-> ToLowerCase(kept[i])]

\* the cleaned words of a text that are not empty
WordSequence(s) ==
    LET ws == WhitespaceSeparated(s, <<>>)
    IN  SelectSeq([i \in 1..Len(ws) |-> CleanWord(ws[i])], LAMBDA w : w # <<>>)

\* C21: normalize collapses any whitespace run to a single space: every
\* maximal run of whitespace between two words (spaces, tabs, newlines,
\* carriage returns, or a mix) becomes exactly one space, so the result is the
\* word sequence of the input joined by single spaces, whichever whitespace
\* characters separate the words.
C21_WhitespaceRunsCollapse ==
    Normalized /\ calc.value.type = "string" =>
        calc.once = JoinWords(WordSequence(calc.value.value))

\* the rows that do not belong to document id
OtherDocuments(docs, id) == {d \in docs : d.id # id}
OtherChunks(rows, id) == {c \in rows : c.document_id # id}

\* deleteDocument has ended in slot p without an error
Deleted(p) ==
    hnd[p].op = "deleteDocument" /\ hnd[p].pc = "done" /\ hnd[p].result.status # "error"

\* the step that ends deleteDocument leaves no chunk row of the document
C22_NoChunkLeft ==
    \A p \in Procs :
        hnd'[p] # hnd[p] /\ Deleted(p)' =>
            ~(\E c \in chunks' : c.document_id = hnd'[p].id)

\* no step of deleteDocument touches the rows of another document
C22_OthersKept ==
    \A p \in Procs :
        hnd'[p].op = "deleteDocument" /\ hnd'[p] # hnd[p] =>
            /\ OtherDocuments(documents', hnd'[p].id) = OtherDocuments(documents, hnd'[p].id)
            /\ OtherChunks(chunks', hnd'[p].id) = OtherChunks(chunks, hnd'[p].id)

\* C22: deleting a document deletes all its chunks and nothing else: when
\* deleteDocument(id) ends, no chunk row references id, and no step of
\* deleteDocument removes or changes a document row or a chunk row that
\* belongs to another document.
C22_DeleteOwnChunksOnly == [][C22_NoChunkLeft /\ C22_OthersKept]_vars

\* a chunk was stored for a document while the other slot was deleting that
\* document; the deletion has ended, the chunk is gone and another document
\* still has its chunk
C22_Witness ==
    /\ Deleted(1) /\ hnd[1].result.status = "row"
    /\ hnd[2].op = "createChunk" /\ hnd[2].pc = "done" /\ hnd[2].result.status = "row"
    /\ hnd[2].id = hnd[1].id
    /\ \E c \in chunks : c.document_id # hnd[1].id

\* document hashes are pairwise distinct
C23_HashesDistinct ==
    \A d1, d2 \in documents : d1.doc_hash = d2.doc_hash => d1 = d2

\* a document row that is still stored after a step is stored unchanged
C23_RowsUnchanged ==
    \A d \in documents : (\E e \in documents' : e.id = d.id) => d \in documents'

\* C23: a document is immutable once stored: in every reachable store state
\* document hashes are pairwise distinct, and no store operation other than
\* deletion changes the hash or the attributes of an existing document row.
C23_ImmutableDocuments == [](C23_HashesDistinct) /\ [][C23_RowsUnchanged]_vars

\* a DocumentRegistered event was emitted for hash h: a registerDocument
\* call for h has succeeded
WasRegistered(h) == \E i \in 1..Len(registry.events) : registry.events[i] = h

\* the step is a call of fn (the outcome of the latest call is a new one)
CallOf(fn) == registry'.call # registry.call /\ registry'.call.fn = fn

\* the contract storage is left as it was
StorageUnchanged ==
    /\ registry'.documents = registry.documents
    /\ registry'.documentHashes = registry.documentHashes
    /\ registry'.events = registry.events

C24_Step ==
    CallOf("registerDocument") =>
        LET call == registry'.call
        IN  /\ WasRegistered(call.arg) => call.revert = "Document already registered"
            /\ call.revert # "" => StorageUnchanged
            /\ call.revert = "" =>
                  /\ ~WasRegistered(call.arg)
                  /\ call.arg # 0
                  /\ registry'.documents[call.arg].documentName # ""
                  /\ Len(registry'.documentHashes) = Len(registry.documentHashes) + 1

\* C24: documents cannot be registered twice: registerDocument reverts with
\* 'Document already registered' whenever the hash is already registered, for
\* any caller and any name, and the existing record and the total document
\* count are left unchanged; a registration that succeeds is for a hash that
\* is not zero and a name that is not empty, every other call reverts and
\* registers nothing.
C24_NoDoubleRegistration == [][C24_Step]_vars

\* a second account tried to register a hash that the first had registered
C24_Witness ==
    /\ registry.call.fn = "registerDocument"
    /\ registry.call.revert = "Document already registered"
    /\ registry.call.sender # registry.documents[registry.call.arg].uploader
    /\ Len(registry.documentHashes) = 1

\* C25: in every reachable contract state, getTotalDocuments equals the
\* number of successful registerDocument calls (0 after deployment),
\* getDocumentHashByIndex(i) for i < total returns the hash of the (i+1)-th
\* successful registration with no hash appearing twice, and every index >=
\* total reverts with 'Index out of bounds'.
C25_TotalAndIndex ==
    LET call == registry.call
        total == Len(registry.events)
    IN  /\ Len(registry.documentHashes) = total
        /\ \A i, j \in 1..Len(registry.documentHashes) :
              registry.documentHashes[i] = registry.documentHashes[j] => i = j
        /\ call.fn = "getTotalDocuments" => call.revert = "" /\ call.ret = total
        /\ call.fn = "getDocumentHashByIndex" =>
              IF call.arg < total
              THEN call.revert = "" /\ call.ret = registry.events[call.arg + 1]
              ELSE call.revert = "Index out of bounds"

\* two documents are registered and the hash at index 1 was just read
C25_Witness ==
    /\ Len(registry.events) = 2
    /\ registry.call.fn = "getDocumentHashByIndex" /\ registry.call.arg = 1
    /\ registry.call.ret = registry.events[2]

C26_Bounded ==
    \A h \in Bytes32 : registry.documents[h].confidenceScore \in 0..100

C26_Step ==
    CallOf("verifyDocument") =>
        LET call == registry'.call
        IN  /\ call.revert # "" => StorageUnchanged
            /\ call.revert = "" =>
                  /\ registry'.documents[call.arg].confidenceScore <= 100
                  /\ registry'.documents[call.arg].verificationStatus # ""

\* C26: confidence scores are bounded: in every reachable contract state
\* every registered document has confidenceScore between 0 and 100; a
\* verifyDocument call that reverts changes no stored field, and one that goes
\* through has stored a score of at most 100 and a status that is not empty.
C26_ScoresBounded == [](C26_Bounded) /\ [][C26_Step]_vars

\* a verification with an inadmissible score was refused for a document that
\* holds an earlier verification
C26_Witness ==
    /\ registry.call.fn = "verifyDocument"
    /\ registry.call.revert = "Confidence score must be between 0 and 100"
    /\ registry.documents[registry.call.arg].confidenceScore = 80
    /\ registry.documents[registry.call.arg].verificationStatus = "verified"

C27_Exists ==
    registry.call.fn = "documentExists" =>
        (registry.call.ret <=> WasRegistered(registry.call.arg))

C27_Step ==
    \A fn \in {"addXAIAnalysis", "verifyDocument", "getDocument"} :
        CallOf(fn) /\ ~WasRegistered(registry'.call.arg) =>
            /\ registry'.call.revert = "Document not found"
            /\ StorageUnchanged

\* C27: for every hash that was never registered, addXAIAnalysis,
\* verifyDocument and getDocument revert with 'Document not found' and change
\* no state; documentExists(h) is true if and only if a registerDocument call
\* for h has succeeded.
C27_NotFound == [](C27_Exists) /\ [][C27_Step]_vars

\* an analysis was refused for a hash never registered while another hash is
\* registered
C27_Witness ==
    /\ registry.call.fn = "addXAIAnalysis"
    /\ registry.call.revert = "Document not found"
    /\ registry.call.arg # 0
    /\ Len(registry.events) = 1

\* the verification result of document h has been recorded
VerificationRecorded(h) ==
    WasRegistered(h) /\ registry.documents[h].verificationStatus # "pending"

\* C28: the on-chain record is tamper-proof: once a document has been
\* registered and its verification result recorded by verifyDocument, no
\* later call from any account alters or deletes that record (hash, name,
\* uploader, timestamp, verification status, confidence score, XAI analysis).
C28_TamperProof ==
    [][\A h \in Bytes32 :
          VerificationRecorded(h) => registry'.documents[h] = registry.documents[h]]_vars

\* the upload being answered was flagged by the analysis as AI-generated or
\* as a forged certificate
Flagged ==
    /\ upl.xaiResults # Null
    /\ \/ upl.xaiResults.aiDetection.isAIGenerated
       \/ /\ upl.xaiResults.certificateForgery # Null
          /\ upl.xaiResults.certificateForgery.isForged

\* C29: in the integrated upload flow a document receives status 'verified'
\* and is registered on the blockchain only if it passed all checks: no
\* upload that the analysis flags as AI-generated or as a forged certificate
\* ends with status 'verified' or with a blockchain registration.
C29_FlaggedNeverVerified ==
    upl.pc = "done" /\ Flagged /\ upl.documentId # 0 =>
        /\ upl.blockchainData = Null
        /\ \A d \in documents :
              d.id = upl.documentId => d.status # "verified" /\ d.blockchainData = Null

\* the upload was refused by the threshold check / was accepted
UploadRejected ==
    upl.pc = "done" /\ upl.res = UploadResponse(400, "Upload rejected - High similarity detected")
UploadAccepted == upl.pc = "done" /\ upl.res.status = 200

\* C30: an upload that is not an exact duplicate is rejected exactly when its
\* similarity to existing documents exceeds 75%; a rejected upload leaves no
\* document record, no stored chunks and no blockchain registration, and an
\* upload at or below 75% is accepted and has its chunks stored.
C30_ThresholdAndChunks ==
    LET hash == upl.xaiResults.documentHash
        sections == upl.xaiResults.documentText.sections
    IN  /\ UploadRejected =>
              /\ AboveThreshold(upl.maxSimilarity)
              /\ ~(\E d \in documents : d.doc_hash = hash)
              /\ upl.documentId = 0
              /\ hash \notin upl.registered
        /\ UploadAccepted =>
              /\ ~AboveThreshold(upl.maxSimilarity)
              /\ \A i \in 1..Len(sections) :
                    \E c \in chunks : /\ c.document_id = upl.documentId
                                      /\ c.chunk_index = i - 1
                                      /\ c.chunk_text = sections[i]

\* C31: if the chunk store cannot be queried while an upload's similarity is
\* being computed, the upload is not treated as having no matches: the failure
\* is reported to the caller and the upload is neither given status
\* 'verified' nor registered on the blockchain.
C31_StoreFailureReported ==
    upl.pc = "done" /\ upl.storeFailed =>
        /\ upl.res.status = 500
        /\ upl.blockchainData = Null
        /\ \A d \in documents : d.id = upl.documentId => d.status # "verified"

\* C32: in the integrated upload flow, however the request ends (success, or
\* an error at chunk storage, blockchain registration or the final update),
\* every document record whose stored status is 'verified' has blockchain
\* registration data attached.
C32_VerifiedHasRegistration ==
    upl.pc \in {"done", "idle"} =>
        \A d \in documents : d.status = "verified" => d.blockchainData # Null

\* the chunk text t is found by SELECT ... FROM chunks WHERE chunk_hash = $1
FindableIn(rows, t) == \E c \in rows : c.chunk_hash = sha256(t)

\* the chunk texts of stored document d (its hash stands for its text)
ChunksOfDocument(d) ==
    LET cs == chunkText(d.doc_hash.digest) IN {cs[i] : i \in 1..Len(cs)}

\* C33: after any sequence of ingestions and deletions, every chunk of every
\* document still in the store remains findable by exact hash lookup: no step
\* makes a chunk text of a document that stays in the store, and is not the
\* one being deleted, unfindable.
C33_DeleteKeepsSharedChunks ==
    [][\A d \in documents \cap documents' :
          (hnd'[1].op = "deleteDocument" => d.id # hnd'[1].id) =>
              \A t \in ChunksOfDocument(d) :
                  FindableIn(chunks, t) => FindableIn(chunks', t)]_vars

\* C34: evaluation is read-only: the set of document rows and chunk rows in
\* the store is identical before and after any searchDocument call, whichever
\* tier answers and whether it succeeds or fails.
C34_SearchReadOnly ==
    [][srch' # srch => documents' = documents /\ chunks' = chunks]_vars

\* a search against a store holding documents and chunks failed at a query
C34_Witness ==
    /\ srch.pending /\ srch.outcome.matchType = "error"
    /\ documents # {} /\ chunks # {}

\* the rows of documentId among the row sequence rs returned for chunk: how
\* many, and the sum of their similarity values
RowsFor(rs, documentId) == {j \in 1..Len(rs) : rs[j].document_id = documentId}

RECURSIVE RowsTotal(_, _, _)
RowsTotal(rs, chunk, documentId) ==
    IF rs = <<>> THEN <<0, 1>>
    ELSE LET rest == RowsTotal(Tail(rs), chunk, documentId)
         IN  IF Head(rs).document_id = documentId
             THEN FracAdd(similarity(Head(rs).chunk_text, chunk), rest)
             ELSE rest

\* over the answers to the fuzzy queries (answers[i] for submitted chunk i)
RECURSIVE AnswerCount(_, _, _)
AnswerCount(answers, i, documentId) ==
    IF i = 0 THEN 0
    ELSE Cardinality(RowsFor(answers[i], documentId)) + AnswerCount(answers, i - 1, documentId)

RECURSIVE AnswerTotal(_, _, _)
AnswerTotal(answers, i, documentId) ==
    IF i = 0 THEN <<0, 1>>
    ELSE FracAdd(RowsTotal(answers[i], SearchChunks[i], documentId),
                 AnswerTotal(answers, i - 1, documentId))

\* the result list is the per-document mean and row count of these answers
MeansOf(results, answers) ==
    LET n == Len(SearchChunks)
        hit == UNION {{answers[i][j].document_id : j \in 1..Len(answers[i])} : i \in 1..n}
    IN  /\ {results[k].docId : k \in 1..Len(results)} = hit
        /\ \A k, l \in 1..Len(results) : results[k].docId = results[l].docId => k = l
        /\ \A k \in 1..Len(results) :
              LET count == AnswerCount(answers, n, results[k].docId)
                  total == AnswerTotal(answers, n, results[k].docId)
              IN  /\ results[k].matchedChunks = count
                  /\ results[k].score = Frac(total[1], total[2] * count)

\* C35: in a fuzzy_trigram result, every document for which at least one
\* per-chunk fuzzy query returned a row is listed exactly once, its score
\* equals the arithmetic mean of the similarity values of all rows returned
\* for it across the submitted chunks, and its matched count equals the
\* number of those rows.
C35_FuzzyMeans ==
    SearchAnswered /\ srch.outcome.matchType = "fuzzy_trigram" =>
        \E answers \in [1..Len(SearchChunks) ->
                          UNION {FuzzyRowsOf(documents, chunks, SearchChunks[i]) :
                                    i \in 1..Len(SearchChunks)}] :
            /\ \A i \in 1..Len(SearchChunks) :
                  answers[i] \in FuzzyRowsOf(documents, chunks, SearchChunks[i])
            /\ MeansOf(srch.outcome.results, answers)

\* a fuzzy result lists a document matched by two rows of different similarity
C35_Witness ==
    /\ SearchAnswered /\ srch.outcome.matchType = "fuzzy_trigram"
    /\ \E k \in 1..Len(srch.outcome.results) :
          /\ srch.outcome.results[k].matchedChunks >= 2
          /\ srch.outcome.results[k].score # <<1, 1>>

\* every authenticity indicator of the analysed document is present
AllIndicatorsPresent ==
    /\ calc.features.textual.hasOfficialLanguage
    /\ calc.features.textual.hasSerialNumber
    /\ calc.features.textual.hasDateFormat
    /\ calc.features.textual.hasOfficialStamps
    /\ calc.features.structural.hasProperFormatting
    /\ calc.features.structural.hasConsistentSpacing
    /\ calc.features.metadata.documentType # "unknown"

\* C36: a verification document can be classified as authentic: when every
\* authenticity indicator is present, no tampering is detected and the
\* document matches no stored one, the authenticity score exceeds 80 and the
\* verdict is the low-risk authentic label.
C36_AuthenticWhenAllPresent ==
    /\ calc.op = "verification" /\ calc.stage = "classified"
    /\ AllIndicatorsPresent
    /\ calc.authenticity.tamperingDetection = 100
    /\ calc.matchResults.matchType # "document"
    /\ calc.matchResults.results = <<>>
    => /\ calc.classification.thrown = ""
       /\ FracLess(<<80, 1>>, calc.classification.authenticityScore)
       /\ calc.classification.riskLevel = "low"
       /\ calc.classification.label \in {"Appears Authentic", "Likely Authentic"}

\* 0 <= x <= cap
FracWithin(x, cap) == ~FracLess(x, <<0, 1>>) /\ ~FracLess(<<cap, 1>>, x)

\* C37: for every feature set and match result, each academic contribution
\* stays within 0 and its documented cap (textual 100, lexical 50, syntactic
\* 40, semantic 50, citation 80, style 60, structure 70) and the qualityScore
\* reported by classifyAcademicDocument lies between 0 and 100.
C37_ContributionsAndQualityBounded ==
    calc.op = "academic" /\ calc.stage = "classified" =>
        /\ FracWithin(calc.contributions.textualSimilarity, 100)
        /\ FracWithin(calc.contributions.lexicalPatterns, 50)
        /\ FracWithin(calc.contributions.syntacticStructure, 40)
        /\ FracWithin(calc.contributions.semanticContent, 50)
        /\ FracWithin(calc.contributions.citationPatterns, 80)
        /\ FracWithin(calc.contributions.writingStyle, 60)
        /\ FracWithin(calc.contributions.documentStructure, 70)
        /\ FracWithin(calc.classification.qualityScore, 100)

\* C38: in the dual DatabaseHandler, whether each PostgreSQL insert succeeds
\* or fails and also after initialize recovered from an empty or corrupt JSON
\* file, every createDocument call returns a document whose id is an integer
\* distinct from the ids returned before, and no call changes the JSON record
\* of an earlier call.
C38_DistinctIntegerIds ==
    /\ [](\A i \in 1..Len(dual.created) :
            /\ IsInteger(dual.created[i])
            /\ \A j \in 1..(i - 1) : dual.created[j] # dual.created[i])
    /\ [][dual.pc = "ready" =>
            \A k \in 1..Len(dual.data.documents) :
                /\ Len(dual'.data.documents) >= k
                /\ dual'.data.documents[k] = dual.data.documents[k]]_vars

\* C39: for every word sequence, every sizeWords >= 1 and every
\* overlapWords >= 0, overlaps at or above the window included, chunkText
\* returns after at most one pass of its loop per word, every chunk is a
\* non-empty run of consecutive words of the text, every word position lies
\* in at least one chunk, and the last chunk ends at the last word.
C39_TerminatesAndCovers ==
    calc.op = "chunkText" /\ calc.stage = "returned" =>
        LET N == Len(calc.chunks)
            W == Len(TextWords)
        IN  /\ N <= W
            /\ W >= 1 => N >= 1
            /\ \A i \in 1..N :
                  /\ ChunkWords(i) # <<>>
                  /\ ContainsSpan(TextWords, ChunkWords(i))
            /\ \A p \in 1..W :
                  \E i \in 1..N :
                      \E k \in 1..Len(ChunkWords(i)) : ChunkWords(i)[k] = TextWords[p]
            /\ W >= 1 => ChunkWords(N)[Len(ChunkWords(N))] = TextWords[W]

\* six words in windows of two with an overlap of three: the step is one word
\* and five chunks come back, the last one holding the last two words
C39_Witness ==
    /\ calc.op = "chunkText" /\ calc.stage = "returned"
    /\ calc.overlapWords >= calc.sizeWords
    /\ Len(TextWords) = 6 /\ calc.sizeWords = 2 /\ calc.overlapWords = 3
    /\ Len(calc.chunks) = 5
    /\ ChunkWords(5) = <<<<101>>, <<102>>>>

====
